---------------------------- MODULE Spec2Model ----------------------------
(***************************************************************************)
(* Model of the git-workspace server core: the safe line editor           *)
(* (utils/edit.js), the atomic writer and the pattern editor              *)
(* (utils/file-operations), the path guard (utils/path.js) and the file   *)
(* index (file-index/index.js, file-index/search.js).                     *)
(*                                                                         *)
(* Text is a sequence of characters.  A file is a record                  *)
(* [exists, data].  Every await of the source is a step of its own, and   *)
(* every filesystem call may fail where the environment allows it.        *)
(***************************************************************************)
EXTENDS Integers, Sequences, FiniteSets, TLC

(***************************************************************************)
(* Bounds of the model.                                                    *)
(***************************************************************************)
MaxLen == 2
MaxNew == 2

(***************************************************************************)
(* Characters and text helpers.                                            *)
(***************************************************************************)
CR == "\r"
LF == "\n"
Chars == {"a", CR, LF}

SeqsUpTo(S, n) == UNION {[1..k -> S] : k \in 0..n}

\* String.prototype.includes
Includes(s, sub) ==
  \E i \in 0..(Len(s) - Len(sub)) : SubSeq(s, i + 1, i + Len(sub)) = sub

\* String.prototype.indexOf, 1-based, 0 when absent
IndexOf(s, sub) ==
  IF Includes(s, sub)
    THEN CHOOSE i \in 1..(Len(s) - Len(sub) + 1) :
           /\ SubSeq(s, i, i + Len(sub) - 1) = sub
           /\ \A j \in 1..(i - 1) : SubSeq(s, j, j + Len(sub) - 1) # sub
    ELSE 0

RECURSIVE SplitOn(_, _)
\* String.prototype.split with a one-character separator
SplitOn(s, c) ==
  LET i == IndexOf(s, <<c>>)
  IN IF i = 0 THEN <<s>>
     ELSE <<SubSeq(s, 1, i - 1)>> \o SplitOn(SubSeq(s, i + 1, Len(s)), c)

\* content.split(/\r?\n/): every LF separates, and a CR right before the
\* separating LF belongs to the separator
SplitLines(s) ==
  LET p == SplitOn(s, LF)
  IN [k \in 1..Len(p) |->
        IF k < Len(p) /\ Len(p[k]) > 0 /\ p[k][Len(p[k])] = CR
          THEN SubSeq(p[k], 1, Len(p[k]) - 1)
          ELSE p[k]]

RECURSIVE Join(_, _)
\* Array.prototype.join
Join(lines, sep) ==
  IF Len(lines) = 0 THEN <<>>
  ELSE IF Len(lines) = 1 THEN lines[1]
  ELSE lines[1] \o sep \o Join(Tail(lines), sep)

\* a variant of the detection that answers LF for every content
DetectLineEnding_AlwaysLF(content) == <<LF>>

\* detectLineEnding
DetectLineEnding(content) ==
  IF Includes(content, <<CR, LF>>) THEN <<CR, LF>>
  ELSE IF Includes(content, <<CR>>) THEN <<CR>>
  ELSE <<LF>>

\* Array.prototype.splice(start, deleteCount, ...items) on a copy, 0-based start
Splice(lines, start, deleteCount, items) ==
  SubSeq(lines, 1, start) \o items
    \o SubSeq(lines, start + deleteCount + 1, Len(lines))

(***************************************************************************)
(* editFileSafely: the pure part (lines 20-39).                            *)
(***************************************************************************)
Undefined == [supplied |-> FALSE, value |-> 0]
Supplied(n) == [supplied |-> TRUE, value |-> n]

\* lineEnd || lineStart : undefined and 0 are falsy
ActualLineEnd(lineStart, lineEnd) ==
  IF lineEnd.supplied /\ lineEnd.value # 0 THEN lineEnd.value ELSE lineStart

\* the two range checks of lines 27 and 32
RangeValid(content, lineStart, lineEnd) ==
  LET n == Len(SplitLines(content))
      ae == ActualLineEnd(lineStart, lineEnd)
  IN /\ ~(lineStart < 1 \/ lineStart > n)
     /\ ~(ae < lineStart \/ ae > n)

\* a variant of the splice that rejoins the lines with LF whatever the
\* detected line ending
EditedContent_JoinLF(content, lineStart, lineEnd, newContent) ==
  LET ae == ActualLineEnd(lineStart, lineEnd)
  IN Join(Splice(SplitLines(content), lineStart - 1, ae - lineStart + 1,
                 SplitOn(newContent, LF)),
          <<LF>>)

\* lines 37-39: splice the new lines in and join with the detected ending
EditedContent(content, lineStart, lineEnd, newContent) ==
  LET ae == ActualLineEnd(lineStart, lineEnd)
  IN Join(Splice(SplitLines(content), lineStart - 1, ae - lineStart + 1,
                 SplitOn(newContent, LF)),
          DetectLineEnding(content))

(***************************************************************************)
(* State.                                                                  *)
(***************************************************************************)
VARIABLES
  disk,            \* content of the target file
  temps,           \* the temporary files next to the target, by number
  pc,              \* position of editFileSafely
  args,            \* its arguments lineStart, lineEnd, newContent
  originalContent, \* edit.js line 19
  newFileContent,  \* edit.js line 39
  pendingErr,      \* the error caught at line 53, rethrown at line 58
  verifyErr,       \* the verifyError of line 69
  err,             \* how the call ended: "none" is success
  wpc,             \* position of writeFileAtomically
  wcontent,        \* its content argument
  wtemp,           \* number of its temporary file
  wres,            \* its outcome: "ok" or the error it throws
  wcaught,         \* the error caught at line 279
  wunlinked,       \* the unlink of line 282 succeeded
  wbefore,         \* content of the target when it was called
  pre,             \* content of the target when the call was issued
  callNo,          \* calls issued so far
  first,           \* content and arguments of the first call
  sawZero,         \* the verification read a zero-byte file
  restoreWrites,   \* restoration writes attempted by the current call
  restoreFailed,   \* restoration writes of the current call that failed
  fs,              \* the directory tree: kind of every variable node
  req,             \* the path handed to validatePath
  ppc,             \* position of validatePath
  absolute,        \* path.js line 41
  pret,            \* the path validatePath returned
  perr,            \* how validatePath ended: "none" is success
  fsCalls,         \* filesystem calls validatePath has made
  touched,         \* the location the caller's operation reached
  tree,            \* the files present below the workspace root
  fileIndex,       \* the catalog: a Map, its entries in insertion order
  indexLastBuilt,  \* completed builds, standing for the timestamp
  bpc,             \* position of every running buildFileIndex
  allFiles,        \* its allFiles
  cursor,          \* its position in the for loop over allFiles
  started,         \* refresh_file_index calls issued so far
  prevCatalog,     \* the catalog when the build in progress was started
  overlapped,      \* two builds have been in progress together
  seen,            \* what the reader that has just run observed
  changes,         \* how many times the workspace changed between builds
  statFailed,      \* an fs.stat failed since the overlapping refresh began
  apc,             \* position of applyFileEdits
  acontent,        \* its content, line 401
  aending,         \* its originalLineEnding, line 402
  abuf,            \* its modifiedContent
  afinal,          \* its finalContent, line 458
  adry,            \* its dryRun argument
  acount,          \* edits of the batch taken so far
  aerr,            \* how applyFileEdits ended: "none" is success
  aunmatched,      \* an edit of the batch matched neither way
  adiff,           \* the two contents the returned diff is made from
  apre,            \* content of the file when applyFileEdits was called
  tpc,             \* position of the tool handler that answers the request
  targs,           \* arguments of the preview_edit request
  tresp,           \* the response the handler returned
  cfs,             \* the files two concurrent write operations work on
  cinit,           \* these files before the two operations
  calls,           \* the two operations: position, locals, paths used
  shadow,          \* per operation, the files as it alone leaves them
  overlap,         \* a step was taken while the other operation was running
  sample,          \* the input a function is applied to
  outcome          \* what the function returned for it

editVars == <<disk, temps, pc, args, originalContent, newFileContent,
              pendingErr, verifyErr, err, wpc, wcontent, wtemp, wres, wcaught,
              wunlinked, wbefore, pre,
              callNo, first, sawZero, restoreWrites, restoreFailed>>

pathVars == <<fs, req, ppc, absolute, pret, perr, fsCalls, touched>>

indexVars == <<tree, fileIndex, indexLastBuilt, bpc, allFiles, cursor,
               started, prevCatalog, overlapped, seen, changes,
               statFailed>>

patVars == <<apc, acontent, aending, abuf, afinal, adry, acount, aerr,
             aunmatched, adiff, apre>>

toolVars == <<tpc, targs, tresp>>

concVars == <<cfs, cinit, calls, shadow, overlap>>

pureVars == <<sample, outcome>>

vars ==
  <<editVars, pathVars, indexVars, patVars, toolVars, concVars, pureVars>>

\* what the actions of one component leave alone
notEditor ==
  <<pathVars, indexVars, patVars, toolVars, concVars, pureVars>>
notGuard ==
  <<editVars, indexVars, patVars, toolVars, concVars, pureVars>>

NoFile == [exists |-> FALSE, data |-> <<>>]
File(d) == [exists |-> TRUE, data |-> d]

\* the randomly named temporary files: the editor's own (line 45) and the
\* ones of the two restoration calls to writeFileAtomically
EditTemp == 1
RestoreTempA == 2
RestoreTempB == 3
PatternTemp == 4
TempIds == {EditTemp, RestoreTempA, RestoreTempB, PatternTemp}

Contents == SeqsUpTo(Chars, MaxLen)
NewContents == SeqsUpTo(Chars, MaxNew)
\* line numbers worth trying on a file: every line, one below, one above
LineArgs(content) == 0..(Len(SplitOn(content, LF)) + 1)
LineEndArgs(content) ==
  {Undefined} \cup {Supplied(n) : n \in LineArgs(content) \cup {0 - 1}}
NoArgs == [lineStart |-> 0, lineEnd |-> Undefined, newContent |-> <<>>]

\* what a failed fs.writeFile can leave at its destination: nothing when
\* the file could not be opened, a file cut short when the write broke off
PartialWrites(content) == {NoFile, File(<<>>)}

\* the editor at rest on a file holding d
EditStart(d) ==
  /\ disk = d
  /\ temps = [t \in TempIds |-> NoFile]
  /\ pc = "idle"
  /\ args = NoArgs
  /\ originalContent = <<>>
  /\ newFileContent = <<>>
  /\ pendingErr = "none"
  /\ verifyErr = "none"
  /\ err = "none"
  /\ wpc = "none"
  /\ wcontent = <<>>
  /\ wtemp = 0
  /\ wres = "none"
  /\ wcaught = "none"
  /\ wunlinked = FALSE
  /\ wbefore = <<>>
  /\ pre = <<>>
  /\ callNo = 0
  /\ first = [content |-> <<>>, args |-> NoArgs]
  /\ sawZero = FALSE
  /\ restoreWrites = 0
  /\ restoreFailed = 0

InitEdit == \E d \in Contents : EditStart(d)

(***************************************************************************)
(* writeFileAtomically (file-operations, lines 269-286).                   *)
(***************************************************************************)
WfaVars == <<wpc, wcontent, wtemp, wres, wcaught, wunlinked, wbefore>>

\* the call: the awaited promise starts at the temp-file write
WfaStart(content, t) ==
  /\ wpc' = "write"
  /\ wcontent' = content
  /\ wtemp' = t
  /\ wres' = "none"
  /\ wcaught' = "none"
  /\ wunlinked' = FALSE
  /\ wbefore' = disk

\* line 275: await fs.writeFile(tempPath, content)
WfaWrite ==
  /\ wpc = "write"
  /\ \/ /\ temps' = [temps EXCEPT ![wtemp] = File(wcontent)]
        /\ wpc' = "rename"
        /\ UNCHANGED wcaught
     \/ /\ \E f \in PartialWrites(wcontent) :
             temps' = [temps EXCEPT ![wtemp] = f]
        /\ wpc' = "cleanup"
        /\ wcaught' = "WriteError"
  /\ UNCHANGED <<disk, wcontent, wtemp, wres, wunlinked, wbefore>>

\* line 278: await fs.rename(tempPath, filePath)
WfaRename ==
  /\ wpc = "rename"
  /\ \/ /\ disk' = temps[wtemp].data
        /\ temps' = [temps EXCEPT ![wtemp] = NoFile]
        /\ wpc' = "ret"
        /\ wres' = "ok"
        /\ UNCHANGED wcaught
     \/ /\ wpc' = "cleanup"
        /\ wcaught' = "RenameError"
        /\ UNCHANGED <<disk, temps, wres>>
  /\ UNCHANGED <<wcontent, wtemp, wunlinked, wbefore>>

\* a variant of the catch block that throws the error of a failed unlink
WfaCleanup_ThrowsUnlinkError ==
  /\ wpc = "cleanup"
  /\ \/ /\ temps[wtemp].exists
        /\ temps' = [temps EXCEPT ![wtemp] = NoFile]
        /\ wunlinked' = TRUE
        /\ wres' = wcaught
     \/ /\ UNCHANGED <<temps, wunlinked>>
        /\ wres' = "UnlinkError"
  /\ wpc' = "ret"
  /\ UNCHANGED <<disk, wcontent, wtemp, wcaught, wbefore>>

\* lines 279-285: unlink the temp file, swallow a failure of the unlink,
\* rethrow the caught error
WfaCleanup ==
  /\ wpc = "cleanup"
  /\ \/ /\ temps[wtemp].exists
        /\ temps' = [temps EXCEPT ![wtemp] = NoFile]
        /\ wunlinked' = TRUE
     \/ UNCHANGED <<temps, wunlinked>>
  /\ wpc' = "ret"
  /\ wres' = wcaught
  /\ UNCHANGED <<disk, wcontent, wtemp, wcaught, wbefore>>

(***************************************************************************)
(* editFileSafely (utils/edit.js, lines 17-88).                            *)
(***************************************************************************)
EditFrame == <<pc, args, originalContent, newFileContent, pendingErr,
               verifyErr, err, pre, callNo, first, sawZero, restoreWrites,
               restoreFailed>>

\* a caller issues edit_file on the file
EditCall ==
  /\ pc = "idle"
  /\ callNo = 0
  /\ \E ls \in LineArgs(disk), le \in LineEndArgs(disk), x \in NewContents :
       /\ args' = [lineStart |-> ls, lineEnd |-> le, newContent |-> x]
       /\ first' = [content |-> disk, args |-> args']
  /\ pre' = disk
  /\ callNo' = 1
  /\ pc' = "read"
  /\ UNCHANGED <<disk, temps, originalContent, newFileContent, pendingErr,
                 verifyErr, err, sawZero, restoreWrites, restoreFailed>>
  /\ UNCHANGED WfaVars
  /\ UNCHANGED notEditor

\* after a successful first edit the caller issues the inverse edit:
\* edit(path, s, s + len(X.lines) - 1, originalLines[s..e])
InverseCall ==
  /\ pc = "done"
  /\ err = "none"
  /\ callNo = 1
  /\ LET s == first.args.lineStart
         e == ActualLineEnd(s, first.args.lineEnd)
         xLines == SplitOn(first.args.newContent, LF)
         origLines == SplitLines(first.content)
     IN args' = [lineStart |-> s,
                 lineEnd |-> Supplied(s + Len(xLines) - 1),
                 newContent |-> Join(SubSeq(origLines, s, e), <<LF>>)]
  /\ pre' = disk
  /\ callNo' = 2
  /\ pc' = "read"
  /\ UNCHANGED <<disk, temps, originalContent, newFileContent, pendingErr,
                 verifyErr, err, first, sawZero, restoreWrites,
                 restoreFailed>>
  /\ UNCHANGED WfaVars
  /\ UNCHANGED notEditor

\* lines 19-42: read the file, validate the range, compute the new content
EditRead ==
  /\ pc = "read"
  /\ \/ /\ pc' = "done"
        /\ err' = "ReadError"
        /\ UNCHANGED <<originalContent, newFileContent>>
     \/ /\ originalContent' = disk
        /\ IF RangeValid(disk, args.lineStart, args.lineEnd)
             THEN /\ newFileContent' =
                       EditedContent(disk, args.lineStart, args.lineEnd,
                                     args.newContent)
                  /\ pc' = "writeTemp"
                  /\ UNCHANGED err
             ELSE /\ pc' = "done"
                  /\ err' = "InvalidRange"
                  /\ UNCHANGED newFileContent
  /\ UNCHANGED <<disk, temps, args, pendingErr, verifyErr, pre, callNo,
                 first, sawZero, restoreWrites, restoreFailed>>
  /\ UNCHANGED WfaVars
  /\ UNCHANGED notEditor

\* a variant of the write that goes straight to the target, not to a temp
\* file
EditWriteTemp_InPlace ==
  /\ pc = "writeTemp"
  /\ \/ /\ disk' = newFileContent
        /\ pc' = "rename"
        /\ UNCHANGED pendingErr
     \/ /\ \E f \in PartialWrites(newFileContent) :
             disk' = IF f.exists THEN f.data ELSE disk
        /\ pendingErr' = "WriteError"
        /\ pc' = "cleanup"
  /\ UNCHANGED <<temps, args, originalContent, newFileContent, verifyErr,
                 err, pre, callNo, first, sawZero, restoreWrites,
                 restoreFailed>>
  /\ UNCHANGED WfaVars
  /\ UNCHANGED notEditor

\* line 49: await fs.writeFile(tempPath, newFileContent)
EditWriteTemp ==
  /\ pc = "writeTemp"
  /\ \/ /\ temps' = [temps EXCEPT ![EditTemp] = File(newFileContent)]
        /\ pc' = "rename"
        /\ UNCHANGED pendingErr
     \/ /\ \E f \in PartialWrites(newFileContent) :
             temps' = [temps EXCEPT ![EditTemp] = f]
        /\ pendingErr' = "WriteError"
        /\ pc' = "cleanup"
  /\ UNCHANGED <<disk, args, originalContent, newFileContent, verifyErr,
                 err, pre, callNo, first, sawZero, restoreWrites,
                 restoreFailed>>
  /\ UNCHANGED WfaVars
  /\ UNCHANGED notEditor

\* line 52: await fs.rename(tempPath, filePath).  The rename replaces the
\* target in one step or fails; the failure the verification is there for
\* is a rename that leaves a zero-byte target.
EditRename ==
  /\ pc = "rename"
  /\ \/ /\ temps[EditTemp].exists
        /\ disk' = temps[EditTemp].data
        /\ temps' = [temps EXCEPT ![EditTemp] = NoFile]
        /\ pc' = "verify"
        /\ UNCHANGED pendingErr
     \/ /\ temps[EditTemp].exists
        /\ disk' = <<>>
        /\ temps' = [temps EXCEPT ![EditTemp] = NoFile]
        /\ pc' = "verify"
        /\ UNCHANGED pendingErr
     \/ /\ pendingErr' = "RenameError"
        /\ pc' = "cleanup"
        /\ UNCHANGED <<disk, temps>>
  /\ UNCHANGED <<args, originalContent, newFileContent, verifyErr, err, pre,
                 callNo, first, sawZero, restoreWrites, restoreFailed>>
  /\ UNCHANGED WfaVars
  /\ UNCHANGED notEditor

\* lines 53-59: unlink the temp file, swallow a failure, rethrow
EditCleanup ==
  /\ pc = "cleanup"
  /\ \/ temps' = [temps EXCEPT ![EditTemp] = NoFile]
     \/ UNCHANGED temps
  /\ err' = pendingErr
  /\ pc' = "done"
  /\ UNCHANGED <<disk, args, originalContent, newFileContent, pendingErr,
                 verifyErr, pre, callNo, first, sawZero, restoreWrites,
                 restoreFailed>>
  /\ UNCHANGED WfaVars
  /\ UNCHANGED notEditor

\* lines 62-66 and 69-72: re-read the target.  A failed read goes to the
\* catch block, which starts the restoration of line 72; a zero-byte result
\* for a non-empty new content starts the restoration of line 66.
EditVerify ==
  /\ pc = "verify"
  /\ \/ /\ verifyErr' = "ReadError"
        /\ pc' = "restoreB"
        /\ WfaStart(originalContent, RestoreTempB)
        /\ restoreWrites' = restoreWrites + 1
        /\ UNCHANGED <<err, sawZero>>
     \/ /\ Len(disk) = 0 /\ Len(newFileContent) > 0
        /\ sawZero' = TRUE
        /\ pc' = "restoreA"
        /\ WfaStart(originalContent, RestoreTempA)
        /\ restoreWrites' = restoreWrites + 1
        /\ UNCHANGED <<err, verifyErr>>
     \/ /\ ~(Len(disk) = 0 /\ Len(newFileContent) > 0)
        /\ pc' = "done"
        /\ err' = "none"
        /\ UNCHANGED <<verifyErr, sawZero, restoreWrites>>
        /\ UNCHANGED WfaVars
  /\ UNCHANGED <<disk, temps, args, originalContent, newFileContent,
                 pendingErr, pre, callNo, first, restoreFailed>>
  /\ UNCHANGED notEditor

\* lines 66-72: the restoration of line 66 has returned inside the outer
\* try.  When it succeeded, line 67 throws "corruption detected - restored
\* from backup"; when it failed, its error is thrown.  Either error is
\* caught by catch (verifyError) at line 69, which starts the restoration
\* of line 72.
EditRestoreAReturn ==
  /\ pc = "restoreA"
  /\ wpc = "ret"
  /\ verifyErr' = IF wres = "ok" THEN "CorruptionDetected" ELSE "WriteError"
  /\ restoreFailed' = restoreFailed + (IF wres = "ok" THEN 0 ELSE 1)
  /\ pc' = "restoreB"
  /\ WfaStart(originalContent, RestoreTempB)
  /\ restoreWrites' = restoreWrites + 1
  /\ UNCHANGED <<disk, temps, args, originalContent, newFileContent,
                 pendingErr, err, pre, callNo, first, sawZero>>
  /\ UNCHANGED notEditor

\* lines 74-76: catch (restoreError) catches whatever the inner try threw
CatchRestoreError(thrown) == "CriticalRecoveryFailure"

\* lines 71-76: the restoration of line 72 has returned inside the inner
\* try.  When it succeeded, line 73 throws "verification failed - restored
\* from backup" inside that same try.
EditRestoreBReturn ==
  /\ pc = "restoreB"
  /\ wpc = "ret"
  /\ err' = CatchRestoreError(IF wres = "ok" THEN "VerificationFailed"
                                               ELSE "WriteError")
  /\ restoreFailed' = restoreFailed + (IF wres = "ok" THEN 0 ELSE 1)
  /\ pc' = "done"
  /\ wpc' = "none"
  /\ UNCHANGED <<disk, temps, args, originalContent, newFileContent,
                 pendingErr, verifyErr, pre, callNo, first, sawZero,
                 restoreWrites, wcontent, wtemp, wres, wcaught,
                 wunlinked, wbefore>>
  /\ UNCHANGED notEditor

\* writeFileAtomically running on behalf of editFileSafely
EditWfaWrite ==
  /\ pc \in {"restoreA", "restoreB"}
  /\ WfaWrite
  /\ UNCHANGED EditFrame
  /\ UNCHANGED notEditor

EditWfaRename ==
  /\ pc \in {"restoreA", "restoreB"}
  /\ WfaRename
  /\ UNCHANGED EditFrame
  /\ UNCHANGED notEditor

EditWfaCleanup ==
  /\ pc \in {"restoreA", "restoreB"}
  /\ WfaCleanup
  /\ UNCHANGED EditFrame
  /\ UNCHANGED notEditor

NextEdit ==
  \/ EditCall
  \/ InverseCall
  \/ EditRead
  \/ EditWriteTemp
  \/ EditRename
  \/ EditCleanup
  \/ EditVerify
  \/ EditRestoreAReturn
  \/ EditRestoreBReturn
  \/ EditWfaWrite
  \/ EditWfaRename
  \/ EditWfaCleanup

(***************************************************************************)
(* Paths and the directory tree.  A path is the sequence of its segments   *)
(* below "/".                                                              *)
(***************************************************************************)
MaxSegs == 3
LinkFuel == 2

WorkspaceRoot == <<"w">>
Home == <<"o">>

SegNames == {"a", "b", "..", "..c", "w", "o"}

Absent == [kind |-> "absent", to |-> <<>>]
Dir == [kind |-> "dir", to |-> <<>>]
Plain == [kind |-> "file", to |-> <<>>]
Link(t) == [kind |-> "link", to |-> t]

FixedDirs == {<<>>, <<"w">>, <<"o">>}
VarNodes == {<<"w", "a">>, <<"w", "b">>, <<"w", "a", "b">>, <<"o", "b">>,
             <<"w", "..c">>}
LinkTargets == {<<"o">>, <<"o", "b">>, <<"w", "b">>, <<"w", "a">>}

NodeKinds(n) ==
  IF n = <<"w", "a">> THEN {Absent, Dir, Plain} \cup {Link(t) : t \in LinkTargets}
  ELSE IF n = <<"w", "b">> THEN {Absent, Dir, Plain}
  ELSE {Absent, Plain}

\* the trees the filesystem can hold: a node exists only below a directory
Layouts ==
  {f \in [VarNodes -> UNION {NodeKinds(n) : n \in VarNodes}] :
     /\ \A n \in VarNodes : f[n] \in NodeKinds(n)
     /\ f[<<"w", "a", "b">>] # Absent => f[<<"w", "a">>] = Dir}

Lookup(f, p) ==
  IF p \in FixedDirs THEN Dir
  ELSE IF p \in VarNodes THEN f[p]
  ELSE Absent

IsPrefix(a, b) == Len(a) <= Len(b) /\ SubSeq(b, 1, Len(a)) = a

Parent(p) == IF Len(p) = 0 THEN p ELSE SubSeq(p, 1, Len(p) - 1)

RECURSIVE Resolve(_, _)
\* path.resolve: apply the segments to an absolute base, ".." goes up
Resolve(base, segs) ==
  IF Len(segs) = 0 THEN base
  ELSE IF Head(segs) = ".." THEN Resolve(Parent(base), Tail(segs))
  ELSE Resolve(Append(base, Head(segs)), Tail(segs))

OkPath(p) == [ok |-> TRUE, path |-> p, code |-> "none"]
Failed(c) == [ok |-> FALSE, path |-> <<>>, code |-> c]

RECURSIVE Real(_, _, _, _)
\* fs.realpath: walk the segments from "/", following every symbolic link
Real(f, done, rest, fuel) ==
  IF Len(rest) = 0 THEN OkPath(done)
  ELSE IF Head(rest) = ".." THEN Real(f, Parent(done), Tail(rest), fuel)
  ELSE LET cand == Append(done, Head(rest))
           node == Lookup(f, cand)
       IN IF node.kind = "absent" THEN Failed("ENOENT")
          ELSE IF node.kind = "dir" THEN Real(f, cand, Tail(rest), fuel)
          ELSE IF node.kind = "file"
            THEN IF Len(rest) = 1 THEN OkPath(cand) ELSE Failed("ENOTDIR")
          ELSE IF fuel = 0 THEN Failed("ELOOP")
          ELSE Real(f, <<>>, node.to \o Tail(rest), fuel - 1)

Realpath(f, p) == Real(f, <<>>, p, LinkFuel)

RECURSIVE OpenLocation(_, _, _)
\* where open(path) for writing lands: the parent directories are resolved,
\* a final symbolic link is followed, a missing final entry is created
OpenLocation(f, p, fuel) ==
  IF Len(p) = 0 THEN OkPath(p)
  ELSE LET dir == Realpath(f, Parent(p))
       IN IF ~dir.ok THEN dir
          ELSE IF Lookup(f, dir.path).kind # "dir" THEN Failed("ENOTDIR")
          ELSE LET entry == Append(dir.path, p[Len(p)])
                   node == Lookup(f, entry)
               IN IF node.kind # "link" THEN OkPath(entry)
                  ELSE IF fuel = 0 THEN Failed("ELOOP")
                  ELSE OpenLocation(f, node.to, fuel - 1)

\* where rename-onto, unlink and exclusive create act: on the directory
\* entry itself, a final symbolic link is not followed
EntryLocation(f, p) ==
  IF Len(p) = 0 THEN OkPath(p)
  ELSE LET dir == Realpath(f, Parent(p))
       IN IF ~dir.ok THEN dir
          ELSE IF Lookup(f, dir.path).kind # "dir" THEN Failed("ENOTDIR")
          ELSE OkPath(Append(dir.path, p[Len(p)]))

(***************************************************************************)
(* validatePath (utils/path.js, lines 39-87).                              *)
(***************************************************************************)
Requests ==
  [kind : {"rel", "abs", "home"}, segs : SeqsUpTo(SegNames, MaxSegs)]
NoRequest == [kind |-> "rel", segs |-> <<>>]

\* lines 40-43: expandHome, then path.resolve against the workspace unless
\* the path is absolute
Absolute(r) ==
  IF r.kind = "home" THEN Resolve(Home, r.segs)
  ELSE IF r.kind = "abs" THEN Resolve(<<>>, r.segs)
  ELSE Resolve(WorkspaceRoot, r.segs)

RECURSIVE CommonLen(_, _)
CommonLen(a, b) ==
  IF Len(a) = 0 \/ Len(b) = 0 \/ Head(a) # Head(b) THEN 0
  ELSE 1 + CommonLen(Tail(a), Tail(b))

\* path.relative(from, to) on normalized absolute paths
Relative(from, to) ==
  LET k == CommonLen(from, to)
  IN [i \in 1..(Len(from) - k) |-> ".."] \o SubSeq(to, k + 1, Len(to))

\* relativePath.startsWith('..') on the joined string
StartsWithDotDot(rel) == Len(rel) > 0 /\ rel[1] \in {"..", "..c"}

\* a variant of the containment test that lets every path through
IsWithin_NoTraversalCheck(root, p) == TRUE

\* lines 49-50, 60-61, 74-75:
\* !relative.startsWith('..') && !path.isAbsolute(relative)
IsWithin(root, p) == ~StartsWithDotDot(Relative(root, p))

EmptyLayout == [n \in VarNodes |-> Absent]

\* the path guard at rest on the tree f
PathStart(f) ==
  /\ fs = f
  /\ req = NoRequest
  /\ ppc = "idle"
  /\ absolute = <<>>
  /\ pret = <<>>
  /\ perr = "none"
  /\ fsCalls = 0
  /\ touched = Failed("none")

InitPath == \E f \in Layouts : PathStart(f)

\* lines 39-54: resolve the request and check it lexically
PathCall ==
  /\ ppc = "idle"
  /\ \E r \in Requests :
       /\ req' = r
       /\ absolute' = Absolute(r)
       /\ IF IsWithin(WorkspaceRoot, Absolute(r))
            THEN ppc' = "realpath" /\ perr' = "none"
            ELSE ppc' = "done" /\ perr' = "AccessDenied"
  /\ UNCHANGED <<fs, pret, fsCalls, touched>>
  /\ UNCHANGED notGuard

\* lines 57-68: await fs.realpath(absolute) and check the real path
PathRealpath ==
  /\ ppc = "realpath"
  /\ fsCalls' = fsCalls + 1
  /\ LET r == Realpath(fs, absolute)
     IN IF r.ok
          THEN /\ ppc' = "done"
               /\ IF IsWithin(WorkspaceRoot, r.path)
                    THEN pret' = r.path /\ perr' = "none"
                    ELSE pret' = pret /\ perr' = "AccessDenied"
          ELSE IF r.code = "ENOENT"
            THEN ppc' = "parent" /\ UNCHANGED <<pret, perr>>
            ELSE ppc' = "done" /\ perr' = r.code /\ UNCHANGED pret
  /\ UNCHANGED <<fs, req, absolute, touched>>
  /\ UNCHANGED notGuard

\* lines 69-83: the target does not exist, await fs.realpath(parentDir).
\* The Access denied error of line 78 is thrown inside the try whose catch
\* at line 81 throws "Parent directory does not exist".
PathParent ==
  /\ ppc = "parent"
  /\ fsCalls' = fsCalls + 1
  /\ LET r == Realpath(fs, Parent(absolute))
     IN IF r.ok /\ IsWithin(WorkspaceRoot, r.path)
          THEN pret' = absolute /\ perr' = "none"
          ELSE pret' = pret /\ perr' = "ParentMissing"
  /\ ppc' = "done"
  /\ UNCHANGED <<fs, req, absolute, touched>>
  /\ UNCHANGED notGuard

\* the caller's filesystem operation on the returned path
PathTouch ==
  /\ ppc = "done"
  /\ perr = "none"
  /\ \/ touched' = OpenLocation(fs, pret, LinkFuel)
     \/ touched' = EntryLocation(fs, pret)
  /\ ppc' = "touched"
  /\ UNCHANGED <<fs, req, absolute, pret, perr, fsCalls>>
  /\ UNCHANGED notGuard

NextPath ==
  \/ PathCall
  \/ PathRealpath
  \/ PathParent
  \/ PathTouch

(***************************************************************************)
(* The file index (file-index/collect.js, file-index/index.js,            *)
(* file-index/search.js).  A file is the path of its segments below the    *)
(* workspace root.                                                         *)
(***************************************************************************)
MaxRefresh == 1
MaxFsChanges == 1

\* MAX_FILE_SIZE_MB * 1024 * 1024 with the default of 10
MaxFileSizeBytes == 10485760

IndexUniverse ==
  {<<"readme.md">>, <<"src", "app.js">>, <<"src", "node_modules", "x.js">>,
   <<".github", "app.js">>, <<".env">>, <<"big.bin">>}

FileSize(f) == IF f = <<"big.bin">> THEN MaxFileSizeBytes + 1 ELSE 1

\* name.startsWith('.'), over the names of IndexUniverse
StartsWithDot(name) == name \in {".env", ".github"}

\* name.endsWith('.gitignore') || name.endsWith('.env.example'), over the
\* names of IndexUniverse
EndsWithKept(name) == FALSE

SKIP_DIRS ==
  {"node_modules", "vendor", "venv", "env",
   "dist", "build", "out", "target", "bin", "obj",
   ".next", ".nuxt", "__pycache__", ".pytest_cache", ".nyc_output",
   ".git", ".svn", ".hg",
   ".vscode", ".idea", ".vs",
   "logs", "log", "tmp", "temp", "coverage",
   "public/build", "static/build", ".output", ".cache"}

\* a variant of the directory test that knows hidden directories only
ShouldSkipDirectory_HiddenOnly(dirName) == StartsWithDot(dirName)

\* shouldSkipDirectory
ShouldSkipDirectory(dirName) == StartsWithDot(dirName) \/ dirName \in SKIP_DIRS

\* shouldSkipFile: hidden, unless the name ends in .gitignore or .env.example
ShouldSkipFile(fileName) == StartsWithDot(fileName) /\ ~EndsWithKept(fileName)

\* the entries readdir delivers for a directory: the names right below it
DirEntries(present, dirPath) ==
  {f[Len(dirPath) + 1] :
     f \in {g \in present : Len(g) > Len(dirPath) /\ IsPrefix(dirPath, g)}}

\* entry.isDirectory(): something lies below the entry
IsDirectory(present, entryPath) ==
  \E g \in present : Len(g) > Len(entryPath) /\ IsPrefix(entryPath, g)

RECURSIVE ConcatAll(_)
\* the arrays made of one array of every set, in the order of the sets
ConcatAll(sets) ==
  IF Len(sets) = 0 THEN {<<>>}
  ELSE {x \o y : x \in sets[1], y \in ConcatAll(Tail(sets))}

\* the orders readdir can deliver a set of entries in
Orders(S) ==
  {q \in [1..Cardinality(S) -> S] : \A f \in S : \E i \in DOMAIN q : q[i] = f}

RECURSIVE Walk(_, _)
\* walk, lines 39-61: the entries of the directory are taken in the order
\* readdir delivers; a directory that is not skipped is entered on the
\* spot, a file that is not skipped is pushed
Walk(present, dirPath) ==
  LET Pushed(n) ==
        IF IsDirectory(present, dirPath \o <<n>>)
          THEN IF ShouldSkipDirectory(n)
                 THEN {<<>>}
                 ELSE Walk(present, dirPath \o <<n>>)
        ELSE IF dirPath \o <<n>> \in present /\ ~ShouldSkipFile(n)
          THEN {<<dirPath \o <<n>>>>}
        ELSE {<<>>}
      \* an entry that pushes nothing leaves no trace in the array, so the
      \* order of the other entries is all that shows
      pushing == {n \in DirEntries(present, dirPath) : Pushed(n) # {<<>>}}
  IN UNION {ConcatAll([i \in 1..Len(q) |-> Pushed(q[i])]) :
              q \in Orders(pushing)}

\* collectFilesFiltered: the arrays the walk from the workspace root can
\* return
CollectFilesFiltered(present) == Walk(present, <<>>)

\* path.extname
ExtName(name) ==
  IF name \in {"app.js", "x.js"} THEN ".js"
  ELSE IF name = "readme.md" THEN ".md"
  ELSE IF name = "big.bin" THEN ".bin"
  ELSE ""

PRIORITY_FILES == {"package.json", "requirements.txt", "dockerfile",
                   "makefile", "readme.md"}
\* FILE_EXTENSIONS.CODE, .CONFIG and .DOCS
CodeExtensions ==
  {".py", ".js", ".ts", ".jsx", ".tsx", ".java", ".cpp", ".c", ".h",
   ".cs", ".php", ".rb", ".go", ".rs", ".swift", ".kt", ".scala"}
ConfigExtensions == {".json", ".yaml", ".yml", ".toml", ".ini", ".cfg", ".conf"}
DocsExtensions == {".md", ".txt", ".rst", ".adoc"}

\* getFilePriority
GetFilePriority(name, extension) ==
  IF name \in PRIORITY_FILES THEN 1
  ELSE IF extension \in CodeExtensions THEN 2
  ELSE IF extension \in ConfigExtensions THEN 3
  ELSE IF extension \in DocsExtensions THEN 4
  ELSE 5

\* the entry of lines 93-100, without its modification time
IndexEntry(f) ==
  [path |-> f, name |-> f[Len(f)], size |-> FileSize(f),
   priority |-> GetFilePriority(f[Len(f)], ExtName(f[Len(f)])),
   extension |-> ExtName(f[Len(f)])]

\* a variant of the catalog that keeps every value set, as an array would
MapSet_Push(m, e) == Append(m, e)

\* Map.prototype.set: replace the value of a key in place, else append
MapSet(m, e) ==
  IF \E i \in 1..Len(m) : m[i].path = e.path
    THEN [i \in 1..Len(m) |-> IF m[i].path = e.path THEN e ELSE m[i]]
    ELSE Append(m, e)

Entries(m) == {m[i] : i \in 1..Len(m)}

(***************************************************************************)
(* searchFileIndex (file-index/search.js, lines 50-93).                    *)
(***************************************************************************)
\* the characters of a file or directory name
NameChars(name) ==
  CASE name = "readme.md" -> <<"r", "e", "a", "d", "m", "e", ".", "m", "d">>
    [] name = "app.js" -> <<"a", "p", "p", ".", "j", "s">>
    [] name = "x.js" -> <<"x", ".", "j", "s">>
    [] name = "big.bin" -> <<"b", "i", "g", ".", "b", "i", "n">>
    [] name = ".env" -> <<".", "e", "n", "v">>
    [] name = ".github" -> <<".", "g", "i", "t", "h", "u", "b">>
    [] name = "node_modules" ->
         <<"n", "o", "d", "e", "_", "m", "o", "d", "u", "l", "e", "s">>
    [] name = "src" -> <<"s", "r", "c">>
    [] name = "deep" -> <<"d", "e", "e", "p">>
    [] name = "nested" -> <<"n", "e", "s", "t", "e", "d">>

\* the relative path as the string path.relative returns
PathString(f) == Join([i \in 1..Len(f) |-> NameChars(f[i])], <<"/">>)

\* String.prototype.toLowerCase over the characters of the model
ToLowerCase(str) ==
  [i \in 1..Len(str) |-> IF str[i] = "A" THEN "a" ELSE str[i]]

\* lines 61-78: the score of an entry with the given path and name
ScoreOf(pathStr, nameStr, queryLower) ==
  IF ToLowerCase(pathStr) = queryLower THEN 1000
  ELSE IF ToLowerCase(nameStr) = queryLower THEN 900
  ELSE IF Includes(ToLowerCase(pathStr), queryLower)
    THEN 500 + (100 - Len(pathStr))
  ELSE IF Includes(ToLowerCase(nameStr), queryLower)
    THEN 400 + (50 - Len(nameStr))
  ELSE 0

\* lines 60-78: the score of one entry of the catalog
Score(info, queryLower) ==
  ScoreOf(PathString(info.path), NameChars(info.name), queryLower)

\* the collation order of the characters of the model
CharOrder ==
  <<"_", ".", "/", "a", "b", "c", "d", "e", "g", "h", "i", "j", "l", "m",
    "n", "o", "p", "r", "s", "t", "u", "v", "x">>
CharRank(c) == CHOOSE i \in 1..Len(CharOrder) : CharOrder[i] = c

RECURSIVE LocaleCompare(_, _)
\* String.prototype.localeCompare: negative, zero or positive
LocaleCompare(a, b) ==
  IF Len(a) = 0 /\ Len(b) = 0 THEN 0
  ELSE IF Len(a) = 0 THEN -1
  ELSE IF Len(b) = 0 THEN 1
  ELSE IF a[1] # b[1] THEN CharRank(a[1]) - CharRank(b[1])
  ELSE LocaleCompare(Tail(a), Tail(b))

\* lines 86-90: the comparator of the sort
CompareResults(a, b) ==
  IF a.score # b.score THEN b.score - a.score
  ELSE IF a.priority # b.priority THEN a.priority - b.priority
  ELSE LocaleCompare(NameChars(a.name), NameChars(b.name))

\* one step of a stable sort: x goes behind every element that does not
\* come after it
InsertStable(sorted, x) ==
  LET k == Cardinality({i \in 1..Len(sorted) :
                          \A j \in 1..i : CompareResults(sorted[j], x) <= 0})
  IN SubSeq(sorted, 1, k) \o <<x>> \o SubSeq(sorted, k + 1, Len(sorted))

RECURSIVE SortResults(_)
\* Array.prototype.sort, which is stable
SortResults(results) ==
  IF Len(results) = 0 THEN <<>>
  ELSE InsertStable(SortResults(SubSeq(results, 1, Len(results) - 1)),
                    results[Len(results)])

RECURSIVE Scored(_, _)
\* lines 57-83: the entries with a positive score, in the order of the Map
Scored(catalog, queryLower) ==
  IF Len(catalog) = 0 THEN <<>>
  ELSE LET sc == Score(catalog[1], queryLower)
           rest == Scored(Tail(catalog), queryLower)
       IN IF sc > 0
            THEN <<[path |-> catalog[1].path, name |-> catalog[1].name,
                    priority |-> catalog[1].priority, score |-> sc]>> \o rest
            ELSE rest

\* the default of the limit parameter
DefaultLimit == 10

\* lines 50-92: the ranked paths, resolved against the workspace root
SearchResults(catalog, query, limit) ==
  LET sorted == SortResults(Scored(catalog, ToLowerCase(query)))
      n == IF Len(sorted) < limit THEN Len(sorted) ELSE limit
  IN [i \in 1..n |-> WorkspaceRoot \o sorted[i].path]

\* the files of the workspaces searches are run on
SearchUniverse ==
  {<<"readme.md">>, <<"src", "app.js">>, <<"src", "x.js">>,
   <<"src", "deep", "nested", "app.js">>}

\* the queries of the model
Queries ==
  {<<>>,
   <<"a", "p", "p", ".", "j", "s">>,
   <<"A", "p", "p", ".", "j", "s">>,
   <<"s", "r", "c", "/", "a", "p", "p", ".", "j", "s">>,
   <<"j", "s">>}

\* no reader has run since the last step of a build
NoObservation ==
  [catalog |-> <<>>, during |-> FALSE, previous |-> <<>>, query |-> <<>>,
   results |-> <<>>]

Builders == {"startup", "refresh"}

Building(b) == bpc[b] \in {"collect", "stat"}

\* the catalog a complete build holds when collectFilesFiltered returned
\* the array q and every stat succeeded
CatalogOf(q) ==
  LET kept == SelectSeq(q, LAMBDA f : FileSize(f) <= MaxFileSizeBytes)
  IN [i \in 1..Len(kept) |-> IndexEntry(kept[i])]

\* the entries a complete build of the files t holds
CompleteCatalog(t) ==
  UNION {Entries(CatalogOf(q)) : q \in CollectFilesFiltered(t)}

\* the index after the startup build has completed on the files t and has
\* left the catalog in the order c
IndexBuilt(t, c) ==
  /\ tree = t
  /\ fileIndex = c
  /\ indexLastBuilt = 1
  /\ bpc = [b \in Builders |-> "idle"]
  /\ allFiles = [b \in Builders |-> <<>>]
  /\ cursor = [b \in Builders |-> 0]
  /\ started = 0
  /\ prevCatalog = <<>>
  /\ overlapped = FALSE
  /\ seen = NoObservation
  /\ changes = 0
  /\ statFailed = FALSE

InitSearch ==
  \E t \in SUBSET SearchUniverse : \E q \in CollectFilesFiltered(t) :
    IndexBuilt(t, CatalogOf(q))

\* the index at rest on the files t; the module calls buildFileIndex when
\* it is loaded and does not await it
IndexStart(t) ==
  /\ tree = t
  /\ fileIndex = <<>>
  /\ indexLastBuilt = 0
  /\ bpc = [b \in Builders |-> IF b = "startup" THEN "collect" ELSE "idle"]
  /\ allFiles = [b \in Builders |-> <<>>]
  /\ cursor = [b \in Builders |-> 0]
  /\ started = 0
  /\ prevCatalog = <<>>
  /\ overlapped = FALSE
  /\ seen = NoObservation
  /\ changes = 0
  /\ statFailed = FALSE

InitIndex == \E t \in SUBSET IndexUniverse : IndexStart(t)

notIndex ==
  <<editVars, pathVars, patVars, toolVars, concVars, pureVars>>

\* refreshFileIndex, lines 14-16: a refresh_file_index request arrives
RefreshCall ==
  /\ bpc["refresh"] = "idle"
  /\ started < MaxRefresh
  /\ started' = started + 1
  /\ bpc' = [bpc EXCEPT !["refresh"] = "collect"]
  /\ overlapped' = Building("startup")
  /\ prevCatalog' = IF Building("startup") THEN prevCatalog ELSE fileIndex
  /\ seen' = NoObservation
  /\ statFailed' = FALSE
  /\ UNCHANGED <<tree, fileIndex, indexLastBuilt, allFiles, cursor, changes>>
  /\ UNCHANGED notIndex

\* lines 111-113: the loop is over
BuildFinish(b, lastBuilt) ==
  IF cursor'[b] > Len(allFiles'[b])
    THEN /\ bpc' = [bpc EXCEPT ![b] = "idle"]
         /\ indexLastBuilt' = lastBuilt + 1
    ELSE /\ bpc' = [bpc EXCEPT ![b] = "stat"]
         /\ indexLastBuilt' = lastBuilt

\* lines 76-82: collectFilesFiltered has returned; the catalog is cleared
\* and the loop reaches its first await fs.stat
BuildCollect(b) ==
  /\ bpc[b] = "collect"
  /\ \E q \in CollectFilesFiltered(tree) :
       allFiles' = [allFiles EXCEPT ![b] = q]
  /\ fileIndex' = <<>>
  /\ cursor' = [cursor EXCEPT ![b] = 1]
  /\ BuildFinish(b, indexLastBuilt)
  /\ seen' = NoObservation
  /\ UNCHANGED <<tree, started, prevCatalog, overlapped, changes,
                 statFailed>>
  /\ UNCHANGED notIndex

\* lines 83-109: fs.stat has returned for the file under the cursor.  A
\* failed stat and an oversized file are skipped, any other file is set.
BuildStat(b) ==
  /\ bpc[b] = "stat"
  /\ LET f == allFiles[b][cursor[b]]
     IN \/ /\ UNCHANGED fileIndex
           /\ statFailed' = overlapped
        \/ /\ f \in tree
           /\ fileIndex' = IF FileSize(f) > MaxFileSizeBytes
                             THEN fileIndex
                             ELSE MapSet(fileIndex, IndexEntry(f))
           /\ UNCHANGED statFailed
  /\ cursor' = [cursor EXCEPT ![b] = cursor[b] + 1]
  /\ UNCHANGED allFiles
  /\ BuildFinish(b, indexLastBuilt)
  /\ seen' = NoObservation
  /\ UNCHANGED <<tree, started, prevCatalog, overlapped, changes>>
  /\ UNCHANGED notIndex

\* searchFileIndex: a reader takes the catalog as it is, scores and ranks
\* its entries for the query
SearchFileIndex(query) ==
  /\ seen' = [catalog |-> fileIndex,
              during |-> (\E b \in Builders : Building(b)) /\ ~overlapped,
              previous |-> prevCatalog,
              query |-> query,
              results |-> SearchResults(fileIndex, query, DefaultLimit)]
  /\ UNCHANGED <<tree, fileIndex, indexLastBuilt, bpc, allFiles, cursor,
                 started, prevCatalog, overlapped, changes, statFailed>>
  /\ UNCHANGED notIndex

\* the workspace changes between builds: one file appears or disappears
FsChange ==
  /\ changes < MaxFsChanges
  /\ \A b \in Builders : ~Building(b)
  /\ \E f \in IndexUniverse :
       tree' = IF f \in tree THEN tree \ {f} ELSE tree \cup {f}
  /\ changes' = changes + 1
  /\ seen' = NoObservation
  /\ UNCHANGED <<fileIndex, indexLastBuilt, bpc, allFiles, cursor, started,
                 prevCatalog, overlapped, statFailed>>
  /\ UNCHANGED notIndex

NextIndex ==
  \/ FsChange
  \/ RefreshCall
  \/ \E b \in Builders : BuildCollect(b)
  \/ \E b \in Builders : BuildStat(b)
  \/ SearchFileIndex(<<>>)

(***************************************************************************)
(* applyFileEdits (file-operations, lines 399-470).                        *)
(***************************************************************************)
MaxEdits == 2

Space == " "
PatContents == SeqsUpTo(Chars \cup {Space}, MaxLen)
\* the texts an edit of the batch is made of
EditTexts == {<<>>, <<"a">>, <<Space>>, <<LF>>, <<Space, "a">>, <<"a", LF>>,
              <<"a", CR, LF>>}
EditOps == [oldText : EditTexts, newText : EditTexts]

\* the characters \s matches
IsSpace(c) == c \in {Space, CR, LF}

RECURSIVE NormalizeLineEndings(_)
\* text.replace(/\r\n/g, '\n')
NormalizeLineEndings(text) ==
  IF Len(text) = 0 THEN text
  ELSE IF Len(text) >= 2 /\ text[1] = CR /\ text[2] = LF
    THEN <<LF>> \o NormalizeLineEndings(SubSeq(text, 3, Len(text)))
  ELSE <<text[1]>> \o NormalizeLineEndings(Tail(text))

\* line.match(/^\s*/)[0]
LeadingWs(line) ==
  LET n == IF \A i \in 1..Len(line) : IsSpace(line[i]) THEN Len(line)
           ELSE (CHOOSE i \in 1..Len(line) :
                   /\ ~IsSpace(line[i])
                   /\ \A j \in 1..(i - 1) : IsSpace(line[j])) - 1
  IN SubSeq(line, 1, n)

\* String.prototype.trimStart
TrimStart(line) == SubSeq(line, Len(LeadingWs(line)) + 1, Len(line))

\* the whitespace a line ends with
TrailingWsLen(line) ==
  IF \A i \in 1..Len(line) : IsSpace(line[i]) THEN Len(line)
  ELSE Len(line) - (CHOOSE i \in 1..Len(line) :
                      /\ ~IsSpace(line[i])
                      /\ \A j \in (i + 1)..Len(line) : IsSpace(line[j]))

\* String.prototype.trim
Trim(line) ==
  LET t == TrimStart(line) IN SubSeq(t, 1, Len(t) - TrailingWsLen(t))

\* ' '.repeat(n)
Spaces(n) == [i \in 1..n |-> Space]

Dollar == "$"
\* the grave accent and the apostrophe
Grave == "grave"
Apostrophe == "'"

RECURSIVE GetSubstitution(_, _, _, _)
\* what String.prototype.replace makes of a replacement string when the
\* pattern is a string: "$$" is "$", "$&" the matched text, "$" with a
\* grave accent the text before the match, "$" with an apostrophe the text
\* after it; with no capture groups every other "$" stands for itself
GetSubstitution(matched, before, after, replacement) ==
  IF Len(replacement) = 0 THEN <<>>
  ELSE IF /\ Len(replacement) >= 2
          /\ replacement[1] = Dollar
          /\ replacement[2] \in {Dollar, "&", Grave, Apostrophe}
    THEN (CASE replacement[2] = Dollar -> <<Dollar>>
            [] replacement[2] = "&" -> matched
            [] replacement[2] = Grave -> before
            [] OTHER -> after)
           \o GetSubstitution(matched, before, after,
                              SubSeq(replacement, 3, Len(replacement)))
  ELSE <<replacement[1]>>
         \o GetSubstitution(matched, before, after, Tail(replacement))

\* a variant of the replacement that inserts the new text as it is
ReplaceFirst_Literal(s, old, new) ==
  LET i == IndexOf(s, old)
  IN SubSeq(s, 1, i - 1) \o new \o SubSeq(s, i + Len(old), Len(s))

\* String.prototype.replace with a string pattern (line 412): the first
\* occurrence is replaced by the expansion of the replacement string
ReplaceFirst(s, old, new) ==
  LET i == IndexOf(s, old)
      before == SubSeq(s, 1, i - 1)
      after == SubSeq(s, i + Len(old), Len(s))
  IN before \o GetSubstitution(old, before, after, new) \o after

\* lines 421-428: the windows of contentLines whose lines equal oldLines
\* after trimming, by their 0-based start
BlockMatches(contentLines, oldLines) ==
  {i \in 0..(Len(contentLines) - Len(oldLines)) :
     \A j \in 1..Len(oldLines) : Trim(oldLines[j]) = Trim(contentLines[i + j])}

Min(S) == CHOOSE x \in S : \A y \in S : x <= y
Max0(n) == IF n > 0 THEN n ELSE 0

\* lines 432-443: the replacement lines for the window starting at i
IndentedLines(contentLines, oldLines, newText, i) ==
  LET originalIndent == LeadingWs(contentLines[i + 1])
      raw == SplitOn(newText, LF)
  IN [j \in 1..Len(raw) |->
        IF j = 1 THEN originalIndent \o TrimStart(raw[j])
        ELSE LET oldIndent == IF j <= Len(oldLines)
                                THEN LeadingWs(oldLines[j]) ELSE <<>>
                 newIndent == LeadingWs(raw[j])
             IN IF Len(oldIndent) > 0 /\ Len(newIndent) > 0
                  THEN originalIndent
                         \o Spaces(Max0(Len(newIndent) - Len(oldIndent)))
                         \o TrimStart(raw[j])
                  ELSE raw[j]]

\* lines 406-455: one pass of the loop body on the buffer
ApplyEdit(buf, edit) ==
  LET normalizedOld == NormalizeLineEndings(edit.oldText)
      normalizedNew == NormalizeLineEndings(edit.newText)
      oldLines == SplitOn(normalizedOld, LF)
      contentLines == SplitOn(buf, LF)
      hits == BlockMatches(contentLines, oldLines)
  IN IF Includes(buf, normalizedOld)
       THEN [matched |-> TRUE,
             buf |-> ReplaceFirst(buf, normalizedOld, normalizedNew)]
     ELSE IF hits # {}
       THEN [matched |-> TRUE,
             buf |-> Join(Splice(contentLines, Min(hits), Len(oldLines),
                                 IndentedLines(contentLines, oldLines,
                                               normalizedNew, Min(hits))),
                          <<LF>>)]
     ELSE [matched |-> FALSE, buf |-> buf]

\* the pattern editor at rest
PatStart ==
  /\ apc = "idle"
  /\ acontent = <<>>
  /\ aending = <<LF>>
  /\ abuf = <<>>
  /\ afinal = <<>>
  /\ adry = FALSE
  /\ acount = 0
  /\ aerr = "none"
  /\ aunmatched = FALSE
  /\ adiff = [original |-> <<>>, modified |-> <<>>]
  /\ apre = <<>>

InitPattern == \E d \in PatContents : EditStart(d) /\ PatStart

notPattern ==
  <<EditFrame, pathVars, indexVars, toolVars, concVars, pureVars>>

\* a caller issues the pattern edit, for real or as a preview
PatCall ==
  /\ apc = "idle"
  /\ adry' \in BOOLEAN
  /\ apre' = disk
  /\ apc' = "read1"
  /\ UNCHANGED <<acontent, aending, abuf, afinal, acount, aerr, aunmatched,
                 adiff>>
  /\ UNCHANGED <<disk, temps, WfaVars, notPattern>>

\* line 401: the first read, normalized
PatRead1 ==
  /\ apc = "read1"
  /\ \/ /\ acontent' = NormalizeLineEndings(disk)
        /\ apc' = "read2"
        /\ UNCHANGED aerr
     \/ /\ apc' = "done"
        /\ aerr' = "ReadError"
        /\ UNCHANGED acontent
  /\ UNCHANGED <<aending, abuf, afinal, adry, acount, aunmatched, adiff,
                 apre>>
  /\ UNCHANGED <<disk, temps, WfaVars, notPattern>>

\* lines 402-405: the second read, for the line ending; the loop starts
PatRead2 ==
  /\ apc = "read2"
  /\ \/ /\ aending' = DetectLineEnding(disk)
        /\ abuf' = acontent
        /\ apc' = "edits"
        /\ UNCHANGED aerr
     \/ /\ apc' = "done"
        /\ aerr' = "ReadError"
        /\ UNCHANGED <<aending, abuf>>
  /\ UNCHANGED <<acontent, afinal, adry, acount, aunmatched, adiff, apre>>
  /\ UNCHANGED <<disk, temps, WfaVars, notPattern>>

\* a variant of the loop body that skips an unmatched edit and goes on
PatApplyEdit_SkipUnmatched ==
  /\ apc = "edits"
  /\ acount < MaxEdits
  /\ \E edit \in EditOps : \E r \in {ApplyEdit(abuf, edit)} :
       /\ abuf' = r.buf
       /\ aunmatched' = (aunmatched \/ ~r.matched)
  /\ acount' = acount + 1
  /\ UNCHANGED <<apc, aerr>>
  /\ UNCHANGED <<acontent, aending, afinal, adry, adiff, apre>>
  /\ UNCHANGED <<disk, temps, WfaVars, notPattern>>

\* lines 406-455: the next edit of the batch is applied to the buffer; an
\* edit that matches neither way throws
PatApplyEdit ==
  /\ apc = "edits"
  /\ acount < MaxEdits
  /\ \E edit \in EditOps : \E r \in {ApplyEdit(abuf, edit)} :
       /\ abuf' = r.buf
       /\ aunmatched' = (aunmatched \/ ~r.matched)
       /\ IF r.matched
            THEN UNCHANGED <<apc, aerr>>
            ELSE apc' = "done" /\ aerr' = "NoMatchFound"
  /\ acount' = acount + 1
  /\ UNCHANGED <<acontent, aending, afinal, adry, adiff, apre>>
  /\ UNCHANGED <<disk, temps, WfaVars, notPattern>>

\* lines 457-458: the batch is exhausted, the line endings are restored
PatEditsDone ==
  /\ apc = "edits"
  /\ afinal' = Join(SplitOn(abuf, LF), aending)
  /\ apc' = "read3"
  /\ UNCHANGED <<acontent, aending, abuf, adry, acount, aerr, aunmatched,
                 adiff, apre>>
  /\ UNCHANGED <<disk, temps, WfaVars, notPattern>>

\* a variant of the last step that writes whatever dryRun says
PatRead3_AlwaysWrite ==
  /\ apc = "read3"
  /\ \/ /\ adiff' = [original |-> NormalizeLineEndings(disk),
                     modified |-> NormalizeLineEndings(afinal)]
        /\ apc' = "write"
        /\ WfaStart(afinal, PatternTemp)
        /\ UNCHANGED aerr
     \/ /\ apc' = "done"
        /\ aerr' = "ReadError"
        /\ UNCHANGED <<adiff, WfaVars>>
  /\ UNCHANGED <<acontent, aending, abuf, afinal, adry, acount, aunmatched,
                 apre>>
  /\ UNCHANGED <<disk, temps, notPattern>>

\* lines 461-467: the third read, the diff, and unless dryRun the call of
\* writeFileAtomically
PatRead3 ==
  /\ apc = "read3"
  /\ \/ /\ adiff' = [original |-> NormalizeLineEndings(disk),
                     modified |-> NormalizeLineEndings(afinal)]
        /\ IF adry
             THEN apc' = "done" /\ UNCHANGED WfaVars
             ELSE apc' = "write" /\ WfaStart(afinal, PatternTemp)
        /\ UNCHANGED aerr
     \/ /\ apc' = "done"
        /\ aerr' = "ReadError"
        /\ UNCHANGED <<adiff, WfaVars>>
  /\ UNCHANGED <<acontent, aending, abuf, afinal, adry, acount, aunmatched,
                 apre>>
  /\ UNCHANGED <<disk, temps, notPattern>>

\* writeFileAtomically running on behalf of applyFileEdits
PatWfaWrite ==
  /\ apc = "write"
  /\ WfaWrite
  /\ UNCHANGED <<patVars, notPattern>>

PatWfaRename ==
  /\ apc = "write"
  /\ WfaRename
  /\ UNCHANGED <<patVars, notPattern>>

PatWfaCleanup ==
  /\ apc = "write"
  /\ WfaCleanup
  /\ UNCHANGED <<patVars, notPattern>>

\* lines 466-469: writeFileAtomically has returned
PatWriteReturn ==
  /\ apc = "write"
  /\ wpc = "ret"
  /\ aerr' = IF wres = "ok" THEN "none" ELSE "WriteError"
  /\ apc' = "done"
  /\ wpc' = "none"
  /\ UNCHANGED <<acontent, aending, abuf, afinal, adry, acount, aunmatched,
                 adiff, apre>>
  /\ UNCHANGED <<disk, temps, wcontent, wtemp, wres, wcaught, wunlinked,
                 wbefore, notPattern>>

NextPattern ==
  \/ PatCall
  \/ PatRead1
  \/ PatRead2
  \/ PatApplyEdit
  \/ PatEditsDone
  \/ PatRead3
  \/ PatWfaWrite
  \/ PatWfaRename
  \/ PatWfaCleanup
  \/ PatWriteReturn

(***************************************************************************)
(* The tool handlers edit_file (edit-file.js, lines 17-30) and              *)
(* preview_edit (preview-edit.js, lines 19-57): what they answer.  A        *)
(* response records whether it carries isError and, beside it, whether the  *)
(* operation it answers failed.                                             *)
(***************************************************************************)
NoResponse == [tool |-> "none", isError |-> FALSE, failed |-> FALSE]
Response(tool, isError, failed) ==
  [tool |-> tool, isError |-> isError, failed |-> failed]

ToolStart ==
  /\ tpc = "idle"
  /\ targs = NoArgs
  /\ tresp = NoResponse

\* edit-file.js, line 19 and lines 24-29: validatePath rejects the path, the
\* catch answers with isError
EditFileReject ==
  /\ tpc = "idle"
  /\ pc = "idle"
  /\ callNo = 0
  /\ tpc' = "done"
  /\ tresp' = Response("edit_file", TRUE, TRUE)
  /\ UNCHANGED <<editVars, pathVars, indexVars, patVars, concVars, pureVars,
               targs>>

\* edit-file.js, lines 19-20: the path is accepted and editFileSafely is
\* called
EditFileCall ==
  /\ tpc = "idle"
  /\ EditCall

\* edit-file.js, lines 20-29: editFileSafely returned and the handler
\* answers without isError, or it threw and the catch answers with isError
EditFileReturn ==
  /\ tpc = "idle"
  /\ pc = "done"
  /\ tpc' = "done"
  /\ tresp' = Response("edit_file", err # "none", err # "none")
  /\ UNCHANGED <<editVars, pathVars, indexVars, patVars, concVars, pureVars,
               targs>>

\* a caller issues preview_edit on the file
PreviewCall ==
  /\ tpc = "idle"
  /\ pc = "idle"
  /\ callNo = 0
  /\ \E ls \in LineArgs(disk), le \in LineEndArgs(disk), x \in NewContents :
       targs' = [lineStart |-> ls, lineEnd |-> le, newContent |-> x]
  /\ tpc' = "preview"
  /\ UNCHANGED <<editVars, pathVars, indexVars, patVars, concVars, pureVars,
               tresp>>

\* preview-edit.js, lines 28-39: the answers to a line range outside the
\* file carry no isError
PreviewRangeResponse == Response("preview_edit", FALSE, TRUE)

\* a variant of these answers that carries isError
PreviewRangeResponse_IsError == Response("preview_edit", TRUE, TRUE)

\* preview-edit.js, lines 20-56: validatePath or readFile throws and the
\* catch answers with isError; the line range is refused; or the preview is
\* made and returned
PreviewEdit ==
  /\ tpc = "preview"
  /\ \/ tresp' = Response("preview_edit", TRUE, TRUE)
     \/ LET lines == SplitLines(disk)
            actualLineEnd == ActualLineEnd(targs.lineStart, targs.lineEnd)
        IN tresp' =
             IF targs.lineStart < 1 \/ targs.lineStart > Len(lines)
               THEN PreviewRangeResponse
             ELSE IF actualLineEnd < targs.lineStart
                       \/ actualLineEnd > Len(lines)
               THEN PreviewRangeResponse
             ELSE Response("preview_edit", FALSE, FALSE)
  /\ tpc' = "done"
  /\ UNCHANGED <<editVars, pathVars, indexVars, patVars, concVars, pureVars,
               targs>>

NextTools ==
  \/ EditFileReject
  \/ EditFileCall
  \/ EditRead
  \/ EditWriteTemp
  \/ EditRename
  \/ EditCleanup
  \/ EditVerify
  \/ EditRestoreAReturn
  \/ EditRestoreBReturn
  \/ EditWfaWrite
  \/ EditWfaRename
  \/ EditWfaCleanup
  \/ EditFileReturn
  \/ PreviewCall
  \/ PreviewEdit

(***************************************************************************)
(* Two write operations running together on two different files.  The      *)
(* handlers are asynchronous: one runs until its next await and the other   *)
(* may run in between, so a step is one file-system call together with the  *)
(* code up to the next one.  Each handler has accepted its path.            *)
(***************************************************************************)
Calls == {1, 2}
Target(p) == IF p = 1 THEN <<"a.txt">> ELSE <<"b.txt">>
Targets == {Target(p) : p \in Calls}
\* the values randomBytes(16).toString('hex') can take
RandomNames == {"r1", "r2"}

\* a variant of the temp-file name that leaves the target's path out
TempPath_FixedPrefix(filePath, r) == <<"a.txt", r>>

\* file-operations, line 271, and edit.js, line 45:
\* `${filePath}.${randomBytes(16).toString('hex')}.tmp`
TempPath(filePath, r) == filePath \o <<r>>

CPaths == Targets \cup {TempPath(t, r) : t \in Targets, r \in RandomNames}

\* what a target can hold before the operations
TargetStates == {NoFile, File(<<>>), File(<<"a">>)}

Request(path, tool, content, addNewline, lineStart, edits) ==
  [path |-> path, tool |-> tool, content |-> content,
   addNewline |-> addNewline, lineStart |-> lineStart, edits |-> edits]

\* the requests tried on a target: write_file, append_to_file with and
\* without add_newline, edit_file on line 1 and on a line that may not
\* exist, and a pattern edit
WriteRequests(path) ==
  {Request(path, "write_file", <<"b">>, TRUE, 0, <<>>)}
    \cup {Request(path, "append_to_file", <<"b">>, n, 0, <<>>) :
            n \in BOOLEAN}
    \cup {Request(path, "edit_file", <<"b">>, TRUE, k, <<>>) : k \in 1..2}
    \cup {Request(path, "edit_file_advanced", <<>>, TRUE, 0,
                  <<[oldText |-> <<"a">>, newText |-> <<"b">>]>>)}

\* an operation not yet issued
Idle(p) ==
  [pc |-> "idle",
   req |-> Request(Target(p), "none", <<>>, TRUE, 0, <<>>),
   buf |-> <<>>,        \* the content the operation read
   new |-> <<>>,        \* the content the atomic write under way writes
   intended |-> {},     \* the file the operation means to leave, once known
   temp |-> Target(p),  \* tempPath of the atomic write under way
   stage |-> "none",    \* whose atomic write it is
   caught |-> "none",   \* the error the atomic write caught
   res |-> "none",      \* how the operation ended
   used |-> {},         \* the paths its file-system calls named
   made |-> {},         \* the temp-file names it generated
   fault |-> FALSE,     \* one of its file-system calls failed
   undid |-> {}]        \* the operations whose write its restoration undid

ConcStart(init) ==
  /\ cinit = init
  /\ cfs = [x \in CPaths |-> IF x \in Targets THEN init[x] ELSE NoFile]
  /\ calls = [p \in Calls |-> Idle(p)]
  /\ shadow = [p \in Calls |-> cfs]
  /\ overlap = FALSE

\* the two operations at rest, while another component runs
ConcRest == ConcStart([t \in Targets |-> NoFile])

InitConc == \E init \in [Targets -> TargetStates] : ConcStart(init)

notConc ==
  <<editVars, pathVars, indexVars, patVars, toolVars, pureVars>>

FsPut(f, path, file) == [f EXCEPT ![path] = file]
\* fs.rename replaces the destination in one step
FsRename(f, from, to) == [f EXCEPT ![to] = f[from], ![from] = NoFile]

OtherRunning(p) ==
  \E q \in Calls \ {p} : calls[q].pc \notin {"idle", "done"}

\* the step of p sets path to file; the same call changes the files p alone
\* would have left
Effect(p, path, file) ==
  /\ cfs' = FsPut(cfs, path, file)
  /\ shadow' = [shadow EXCEPT ![p] = FsPut(@, path, file)]
  /\ overlap' = (overlap \/ OtherRunning(p))

\* the step of p reads, or its call fails and changes nothing
NoEffect(p) ==
  /\ UNCHANGED <<cfs, shadow>>
  /\ overlap' = (overlap \/ OtherRunning(p))

\* the locals of p become l, and the call named the paths in paths
Local(p, l, paths) ==
  calls' = [calls EXCEPT ![p] = [l EXCEPT !.used = @ \cup paths]]

\* a file-system call of the operation fails
Fault(l) == [l EXCEPT !.fault = TRUE]

\* the operation ends
Ended(l, res) == [l EXCEPT !.pc = "done", !.res = res]

\* writeFileAtomically, line 271, and editFileSafely, line 45: the temp
\* name is made and the write to it is the next call
Begin(l, content, r, stage) ==
  [l EXCEPT !.pc = "temp",
            !.new = content,
            !.temp = TempPath(l.req.path, r),
            !.stage = stage,
            !.caught = "none",
            !.made = @ \cup {TempPath(l.req.path, r)}]

\* the atomic write of the given stage is over.  The operation's own write
\* ends the operation (write_file, append_to_file, the pattern edit) or goes
\* on to the verification (editFileSafely, line 61); the restoration of
\* line 66 is followed by the one of line 72, whose end is always a throw
Finished(l, ok, r) ==
  CASE l.stage = "main" -> Ended(l, IF ok THEN "ok" ELSE "error")
    [] l.stage = "edit" ->
         IF ok THEN [l EXCEPT !.pc = "verify"] ELSE Ended(l, "error")
    [] l.stage = "restoreA" -> Begin(l, l.buf, r, "restoreB")
    [] OTHER -> Ended(l, "error")

RECURSIVE ApplyEdits(_, _)
\* applyFileEdits, lines 405-455: the loop over the edits
ApplyEdits(buf, edits) ==
  IF Len(edits) = 0 THEN [matched |-> TRUE, buf |-> buf]
  ELSE LET r == ApplyEdit(buf, Head(edits))
       IN IF r.matched THEN ApplyEdits(r.buf, Tail(edits))
          ELSE [matched |-> FALSE, buf |-> buf]

\* a caller issues one of the write operations
CallIssue(p) ==
  /\ calls[p].pc = "idle"
  /\ \E request \in WriteRequests(Target(p)) :
       Local(p, [calls[p] EXCEPT
                   !.req = request,
                   !.intended = IF request.tool = "write_file"
                                  THEN {File(request.content)} ELSE {},
                   !.pc = CASE request.tool = "write_file" -> "wx_open"
                            [] request.tool = "append_to_file" -> "ap_read"
                            [] request.tool = "edit_file" -> "ed_read"
                            [] OTHER -> "read1"],
             {})
  /\ UNCHANGED <<cfs, cinit, shadow, overlap>>
  /\ UNCHANGED notConc

\* write-file.js, lines 23-30: fs.writeFile with flag 'wx' opens the
\* target.  An existing target gives EEXIST and writeFileAtomically is
\* called; otherwise the open fails, or it creates the target, empty
WriteFileOpen(p) ==
  LET l == calls[p]
      target == l.req.path
  IN /\ l.pc = "wx_open"
     /\ \/ /\ cfs[target].exists
           /\ \E r \in RandomNames :
                Local(p, Begin(l, l.req.content, r, "main"), {target})
           /\ NoEffect(p)
        \/ /\ ~cfs[target].exists
           /\ Local(p, Ended(Fault(l), "error"), {target})
           /\ NoEffect(p)
        \/ /\ ~cfs[target].exists
           /\ Local(p, [l EXCEPT !.pc = "wx_write"], {target})
           /\ Effect(p, target, File(<<>>))
     /\ UNCHANGED cinit
     /\ UNCHANGED notConc

\* write-file.js, line 23, after the open: the content is written into the
\* target, or the write breaks off and leaves the target as it is
WriteFileWrite(p) ==
  LET l == calls[p]
      target == l.req.path
  IN /\ l.pc = "wx_write"
     /\ \/ /\ Local(p, Ended(l, "ok"), {target})
           /\ Effect(p, target, File(l.req.content))
        \/ /\ Local(p, Ended(Fault(l), "error"), {target})
           /\ NoEffect(p)
     /\ UNCHANGED cinit
     /\ UNCHANGED notConc

\* append-to-file.js, lines 20-33: the read; ENOENT leaves the existing
\* content empty, another error ends the operation
AppendToFileRead(p) ==
  LET l == calls[p]
      target == l.req.path
      existingContent == IF cfs[target].exists THEN cfs[target].data
                         ELSE <<>>
      newContent ==
        existingContent
          \o (IF l.req.addNewline /\ Len(existingContent) > 0
                THEN <<LF>> ELSE <<>>)
          \o l.req.content
  IN /\ l.pc = "ap_read"
     /\ \/ \E r \in RandomNames :
             Local(p, Begin([l EXCEPT !.buf = existingContent,
                                      !.intended = {File(newContent)}],
                            newContent, r, "main"),
                   {target})
        \/ Local(p, Ended(Fault(l), "error"), {target})
     /\ NoEffect(p)
     /\ UNCHANGED cinit
     /\ UNCHANGED notConc

\* editFileSafely, lines 19-45: the read, the two range checks, the new
\* content and the temp name
EditFileSafelyRead(p) ==
  LET l == calls[p]
      target == l.req.path
      originalContent_ == cfs[target].data
      newFileContent_ ==
        EditedContent(originalContent_, l.req.lineStart, Undefined,
                      l.req.content)
  IN /\ l.pc = "ed_read"
     /\ \/ /\ cfs[target].exists
           /\ RangeValid(originalContent_, l.req.lineStart, Undefined)
           /\ \E r \in RandomNames :
                Local(p, Begin([l EXCEPT !.buf = originalContent_,
                                         !.intended =
                                           {File(newFileContent_)}],
                               newFileContent_, r, "edit"),
                      {target})
        \/ /\ cfs[target].exists
           /\ ~RangeValid(originalContent_, l.req.lineStart, Undefined)
           /\ Local(p, Ended(l, "error"), {target})
        \/ Local(p, Ended(Fault(l), "error"), {target})
     /\ NoEffect(p)
     /\ UNCHANGED cinit
     /\ UNCHANGED notConc

\* file-operations, line 275, and edit.js, line 49: fs.writeFile on the
\* temp file
WriteTemp(p) ==
  LET l == calls[p]
  IN /\ l.pc = "temp"
     /\ \/ /\ Local(p, [l EXCEPT !.pc = "rename"], {l.temp})
           /\ Effect(p, l.temp, File(l.new))
        \/ /\ Local(p, [l EXCEPT !.pc = "unlink", !.caught = "WriteError",
                               !.fault = TRUE],
                    {l.temp})
           /\ \E left \in PartialWrites(l.new) : Effect(p, l.temp, left)
     /\ UNCHANGED cinit
     /\ UNCHANGED notConc

\* the operations on the same target whose new content is in place, and
\* stays in place as far as they know, when a restoration of p replaces it
Undone(p) ==
  IF calls[p].stage \in {"restoreA", "restoreB"}
    THEN {q \in Calls \ {p} :
            /\ calls[q].req.path = calls[p].req.path
            /\ calls[q].stage = "edit"
            /\ calls[q].pc = "verify" \/ calls[q].res = "ok"}
    ELSE {}

\* file-operations, line 278, and edit.js, line 52: fs.rename of the temp
\* file onto the target
RenameTemp(p) ==
  LET l == calls[p]
      target == l.req.path
  IN /\ l.pc = "rename"
     /\ \/ /\ cfs[l.temp].exists
           /\ \E r \in RandomNames :
                Local(p, Finished([l EXCEPT !.undid = @ \cup Undone(p)],
                                  TRUE, r),
                      {l.temp, target})
           /\ cfs' = FsRename(cfs, l.temp, target)
           /\ shadow' = [shadow EXCEPT ![p] = FsRename(@, l.temp, target)]
           /\ overlap' = (overlap \/ OtherRunning(p))
        \/ /\ Local(p, [l EXCEPT !.pc = "unlink", !.caught = "RenameError",
                               !.fault = TRUE],
                    {l.temp, target})
           /\ NoEffect(p)
     /\ UNCHANGED cinit
     /\ UNCHANGED notConc

\* file-operations, lines 279-285, and edit.js, lines 53-59: the temp file
\* is unlinked, a failure of the unlink is swallowed, the error is rethrown
UnlinkTemp(p) ==
  LET l == calls[p]
  IN /\ l.pc = "unlink"
     /\ \E r \in RandomNames : Local(p, Finished(l, FALSE, r), {l.temp})
     /\ \/ /\ cfs[l.temp].exists
           /\ Effect(p, l.temp, NoFile)
        \/ NoEffect(p)
     /\ UNCHANGED cinit
     /\ UNCHANGED notConc

\* editFileSafely, lines 62-72: the target is read again.  A failed read
\* starts the restoration of line 72, an empty result for a non-empty new
\* content the one of line 66
EditFileSafelyVerify(p) ==
  LET l == calls[p]
      target == l.req.path
      verificationContent == cfs[target].data
  IN /\ l.pc = "verify"
     /\ \/ \E r \in RandomNames :
             Local(p, Begin(Fault(l), l.buf, r, "restoreB"), {target})
        \/ /\ cfs[target].exists
           /\ \E r \in RandomNames :
                Local(p,
                      IF Len(verificationContent) = 0 /\ Len(l.new) > 0
                        THEN Begin(l, l.buf, r, "restoreA")
                        ELSE Ended(l, "ok"),
                      {target})
     /\ NoEffect(p)
     /\ UNCHANGED cinit
     /\ UNCHANGED notConc

\* applyFileEdits, line 401: the first read, normalized
ApplyFileEditsRead1(p) ==
  LET l == calls[p]
      target == l.req.path
  IN /\ l.pc = "read1"
     /\ \/ /\ cfs[target].exists
           /\ Local(p, [l EXCEPT !.pc = "read2",
                                 !.buf = NormalizeLineEndings(
                                           cfs[target].data)],
                    {target})
        \/ Local(p, Ended(Fault(l), "error"), {target})
     /\ NoEffect(p)
     /\ UNCHANGED cinit
     /\ UNCHANGED notConc

\* applyFileEdits, lines 402-458: the second read, for the line ending,
\* the loop over the edits and the final content
ApplyFileEditsRead2(p) ==
  LET l == calls[p]
      target == l.req.path
      originalLineEnding == DetectLineEnding(cfs[target].data)
      modified == ApplyEdits(l.buf, l.req.edits)
      finalContent == Join(SplitOn(modified.buf, LF), originalLineEnding)
  IN /\ l.pc = "read2"
     /\ \/ /\ cfs[target].exists
           /\ modified.matched
           /\ Local(p, [l EXCEPT !.pc = "read3",
                                 !.new = finalContent,
                                 !.intended = {File(finalContent)}],
                    {target})
        \/ /\ cfs[target].exists
           /\ ~modified.matched
           /\ Local(p, Ended(l, "error"), {target})
        \/ Local(p, Ended(Fault(l), "error"), {target})
     /\ NoEffect(p)
     /\ UNCHANGED cinit
     /\ UNCHANGED notConc

\* applyFileEdits, lines 461-466: the third read, for the diff, and the
\* call of writeFileAtomically
ApplyFileEditsRead3(p) ==
  LET l == calls[p]
      target == l.req.path
  IN /\ l.pc = "read3"
     /\ \/ /\ cfs[target].exists
           /\ \E r \in RandomNames :
                Local(p, Begin(l, l.new, r, "main"), {target})
        \/ Local(p, Ended(Fault(l), "error"), {target})
     /\ NoEffect(p)
     /\ UNCHANGED cinit
     /\ UNCHANGED notConc

NextConc ==
  \/ \E p \in Calls : CallIssue(p)
  \/ \E p \in Calls : WriteFileOpen(p)
  \/ \E p \in Calls : WriteFileWrite(p)
  \/ \E p \in Calls : AppendToFileRead(p)
  \/ \E p \in Calls : EditFileSafelyRead(p)
  \/ \E p \in Calls : EditFileSafelyVerify(p)
  \/ \E p \in Calls : ApplyFileEditsRead1(p)
  \/ \E p \in Calls : ApplyFileEditsRead2(p)
  \/ \E p \in Calls : ApplyFileEditsRead3(p)
  \/ \E p \in Calls : WriteTemp(p)
  \/ \E p \in Calls : RenameTemp(p)
  \/ \E p \in Calls : UnlinkTemp(p)

(***************************************************************************)
(* Functions applied to inputs drawn from fixed sets: the input is chosen  *)
(* at the start and one step applies the function to it.                   *)
(***************************************************************************)
Pending == [done |-> FALSE, value |-> <<>>]
Returned(v) == [done |-> TRUE, value |-> v]

PureStart(x) ==
  /\ sample = x
  /\ outcome = Pending

PureRest == PureStart(<<>>)

\* every other component at rest
RestOfProgram ==
  /\ EditStart(<<>>)
  /\ PathStart(EmptyLayout)
  /\ IndexStart({})
  /\ PatStart
  /\ ToolStart
  /\ ConcRest

notPure == <<editVars, pathVars, indexVars, patVars, toolVars, concVars>>

\* indentations of a line: none, one space, two spaces
Indents == {<<>>, <<Space>>, <<Space, Space>>}

\* two-line buffers and two-line oldTexts that differ at most in their
\* indentation, with newTexts of two and of three lines
BlockSamples ==
  {[buf |-> c[1] \o <<"a", LF>> \o c[2] \o <<"b">>,
    oldText |-> o[1] \o <<"a", LF>> \o o[2] \o <<"b">>,
    newText |-> n[1] \o <<"c", LF>> \o n[2] \o <<"d">> \o extra] :
     c \in Indents \X Indents, o \in Indents \X Indents,
     n \in Indents \X Indents,
     extra \in {<<>>} \cup {<<LF>> \o k \o <<"e">> : k \in Indents}}

\* buffers and oldTexts over two letters, newTexts over a letter and the
\* characters String.prototype.replace gives a meaning to
ReplaceSamples ==
  [buf : SeqsUpTo({"a", "b"}, 3),
   oldText : SeqsUpTo({"a", "b"}, 2),
   newText : SeqsUpTo({"a", Dollar, "&", Grave, Apostrophe}, 2)]

\* longest text a line-ending function is applied to
MaxText == 4
Texts == SeqsUpTo(Chars, MaxText)

\* editFileSafely, lines 19-23: the line-ending style and the lines the
\* editor works with
ParseLines ==
  /\ ~outcome.done
  /\ outcome' = Returned([lineEnding |-> DetectLineEnding(sample),
                          lines |-> SplitLines(sample)])
  /\ UNCHANGED sample
  /\ UNCHANGED notPure

\* line-endings, lines 22-24, applied once and applied again to its result
Normalize ==
  /\ ~outcome.done
  /\ outcome' = Returned([once |-> NormalizeLineEndings(sample),
                          twice |-> NormalizeLineEndings(
                                      NormalizeLineEndings(sample))])
  /\ UNCHANGED sample
  /\ UNCHANGED notPure

\* longest directory name a scored path lies under
MaxDirLen == 600
\* the file app.js under a directory whose name has n characters, and
\* queries its path contains without being its path or its name
ScoreSamples ==
  [name : {<<"a", "p", "p", ".", "j", "s">>},
   dirLen : 1..MaxDirLen,
   query : {<<"p", "p">>, <<"/", "A", "p", "p">>}]
SamplePath(x) == [i \in 1..x.dirLen |-> "d"] \o <<"/">> \o x.name

\* searchFileIndex, lines 58-82: the score of one entry and whether the
\* entry is kept
ScoreEntry ==
  /\ ~outcome.done
  /\ LET score == ScoreOf(SamplePath(sample), sample.name,
                          ToLowerCase(sample.query))
     IN outcome' = Returned([score |-> score, kept |-> score > 0])
  /\ UNCHANGED sample
  /\ UNCHANGED notPure

\* a variant of the allow list that lets a writing subcommand through
ALLOWED_GIT_COMMANDS_WithStash ==
  {"status", "diff", "log", "branch", "show", "rev-parse", "config", "stash"}

\* constants.js, lines 30-32
ALLOWED_GIT_COMMANDS ==
  {"status", "diff", "log", "branch", "show", "rev-parse", "config"}

\* git.js, line 22
BlockedCommands ==
  {"add", "commit", "push", "pull", "merge", "rebase", "reset", "checkout",
   "switch", "restore", "clean", "rm"}

\* the argument lists runGitCommand is called with: the empty list, and a
\* first word, allowed, blocked or neither, alone or followed by options
GitArgs ==
  {<<>>}
    \cup {<<c>> \o rest :
            c \in ALLOWED_GIT_COMMANDS \cup BlockedCommands
                    \cup {"stash", "Status", "--version", "fetch"},
            rest \in {<<>>, <<"--porcelain">>, <<"-D", "main">>}}

\* args[0]; the empty list has none
Command(argv) == IF Len(argv) = 0 THEN "<undefined>" ELSE argv[1]

\* git.js, lines 19-36: the two checks, then the spawn
RunGitCommand ==
  /\ ~outcome.done
  /\ LET command == Command(sample)
     IN outcome' =
          IF command \in BlockedCommands
            THEN Returned([spawned |-> <<>>, result |-> "NotAllowed"])
          ELSE IF command \notin ALLOWED_GIT_COMMANDS
            THEN Returned([spawned |-> <<>>, result |-> "NotInAllowedList"])
          ELSE Returned([spawned |-> <<sample>>, result |-> "running"])
  /\ UNCHANGED sample
  /\ UNCHANGED notPure

\* git.js, lines 49-59: the process closes with exit code 0 or another, or
\* could not be run
GitClose ==
  /\ outcome.done
  /\ outcome.value.result = "running"
  /\ \E r \in {"resolved", "CommandFailed", "FailedToRun"} :
       outcome' = Returned([outcome.value EXCEPT !.result = r])
  /\ UNCHANGED sample
  /\ UNCHANGED notPure

\* applyFileEdits, lines 406-455, on one edit
ApplyOneEdit ==
  /\ ~outcome.done
  /\ outcome' = Returned(ApplyEdit(sample.buf,
                                   [oldText |-> sample.oldText,
                                    newText |-> sample.newText]))
  /\ UNCHANGED sample
  /\ UNCHANGED notPure

(***************************************************************************)
(* Specifications: one per component, the other components at rest.        *)
(***************************************************************************)
InitEditor ==
  InitEdit /\ PathStart(EmptyLayout) /\ IndexStart({}) /\ PatStart
    /\ ToolStart /\ ConcRest /\ PureRest
SpecEdit == InitEditor /\ [][NextEdit]_vars

InitGuard ==
  InitPath /\ EditStart(<<>>) /\ IndexStart({}) /\ PatStart /\ ToolStart
    /\ ConcRest /\ PureRest
SpecPath == InitGuard /\ [][NextPath]_vars

InitCatalog ==
  InitIndex /\ EditStart(<<>>) /\ PathStart(EmptyLayout) /\ PatStart
    /\ ToolStart /\ ConcRest /\ PureRest
SpecIndex == InitCatalog /\ [][NextIndex]_vars

InitSearcher ==
  InitSearch /\ EditStart(<<>>) /\ PathStart(EmptyLayout) /\ PatStart
    /\ ToolStart /\ ConcRest /\ PureRest
NextSearch == \E query \in Queries : SearchFileIndex(query)
SpecSearch == InitSearcher /\ [][NextSearch]_vars

InitPatternEditor ==
  InitPattern /\ PathStart(EmptyLayout) /\ IndexStart({}) /\ ToolStart
    /\ ConcRest /\ PureRest
SpecPattern == InitPatternEditor /\ [][NextPattern]_vars

SpecTools == InitEditor /\ [][NextTools]_vars

InitWriters ==
  InitConc /\ EditStart(<<>>) /\ PathStart(EmptyLayout) /\ IndexStart({})
    /\ PatStart /\ ToolStart /\ PureRest
SpecWriters == InitWriters /\ [][NextConc]_vars

(***************************************************************************)
(* Two edit_file calls on the same file.  Both handlers have accepted the  *)
(* same path; each runs editFileSafely, one file-system call at a time.    *)
(***************************************************************************)
SharedTarget == Target(1)

\* what the shared file holds before the calls: one line or two
SharedStates == {File(<<"a">>), File(<<"a", LF, "a">>)}

\* the edits tried: line 1 or line 2, replaced by "b" or by nothing
SharedRequests ==
  {Request(SharedTarget, "edit_file", c, TRUE, k, <<>>) :
     c \in {<<>>, <<"b">>}, k \in 1..2}

InitSameFile ==
  /\ \E init \in SharedStates :
       /\ cinit = [t \in Targets |-> IF t = SharedTarget THEN init
                                                          ELSE NoFile]
       /\ cfs = [x \in CPaths |-> IF x = SharedTarget THEN init ELSE NoFile]
  /\ calls = [p \in Calls |-> [Idle(p) EXCEPT !.req.path = SharedTarget,
                                              !.temp = SharedTarget]]
  /\ shadow = [p \in Calls |-> cfs]
  /\ overlap = FALSE
  /\ EditStart(<<>>) /\ PathStart(EmptyLayout) /\ IndexStart({})
  /\ PatStart /\ ToolStart /\ PureRest

\* edit-file.js: a caller issues edit_file on the shared file
EditIssue(p) ==
  /\ calls[p].pc = "idle"
  /\ \E request \in SharedRequests :
       Local(p, [calls[p] EXCEPT !.req = request, !.pc = "ed_read"], {})
  /\ UNCHANGED <<cfs, cinit, shadow, overlap>>
  /\ UNCHANGED notConc

NextSameFile ==
  \E p \in Calls :
    \/ EditIssue(p)
    \/ EditFileSafelyRead(p)
    \/ WriteTemp(p)
    \/ RenameTemp(p)
    \/ UnlinkTemp(p)
    \/ EditFileSafelyVerify(p)

SpecSameFile == InitSameFile /\ [][NextSameFile]_vars

InitBlock == (\E x \in BlockSamples : PureStart(x)) /\ RestOfProgram
NextBlock == ApplyOneEdit
SpecBlock == InitBlock /\ [][NextBlock]_vars

InitReplace == (\E x \in ReplaceSamples : PureStart(x)) /\ RestOfProgram
NextReplace == ApplyOneEdit
SpecReplace == InitReplace /\ [][NextReplace]_vars

InitTexts == (\E x \in Texts : PureStart(x)) /\ RestOfProgram
NextLines == ParseLines
SpecLines == InitTexts /\ [][NextLines]_vars

InitScore == (\E x \in ScoreSamples : PureStart(x)) /\ RestOfProgram
NextScore == ScoreEntry
SpecScore == InitScore /\ [][NextScore]_vars

InitGit == (\E x \in GitArgs : PureStart(x)) /\ RestOfProgram
NextGit ==
  \/ RunGitCommand
  \/ GitClose
SpecGit == InitGit /\ [][NextGit]_vars

NextNormalize == Normalize
SpecNormalize == InitTexts /\ [][NextNormalize]_vars

(***************************************************************************)
(* Properties of the line editor.                                          *)
(***************************************************************************)
NoCR(s) == \A i \in 1..Len(s) : s[i] # CR

HasLF(s) == \E i \in 1..Len(s) : s[i] = LF

\* every separator is CR LF and there is no other carriage return
PureCRLF(s) ==
  /\ HasLF(s)
  /\ \A i \in 1..Len(s) :
       /\ s[i] = LF => (i > 1 /\ s[i - 1] = CR)
       /\ s[i] = CR => (i < Len(s) /\ s[i + 1] = LF)

\* number of lines of the file the call was issued on
LineCount(content) == Len(SplitOn(content, LF))

\* C1: when editFileSafely ends with anything but CriticalRecoveryFailure,
\* the target holds the complete new content (success) or exactly the
\* pre-edit content (failure), whichever of the temp write, the rename, the
\* verification read and the restoration writes failed.
C1_NewOrPreEdit ==
  (pc = "done" /\ err # "CriticalRecoveryFailure") =>
     IF err = "none"
       THEN disk = EditedContent(pre, args.lineStart, args.lineEnd,
                                 args.newContent)
       ELSE disk = pre

\* C1 witness: the write or the rename failed after a real change was
\* computed, and the call has ended
C1_Witness ==
  /\ pc = "done"
  /\ err \in {"WriteError", "RenameError"}
  /\ newFileContent # pre
  /\ disk = pre

\* C3: when the verification reads a zero-byte file for a non-empty new
\* content and every restoration write succeeds, the file holds the pre-edit
\* content and the error is CorruptionDetected.
C3_CorruptionDetectedReported ==
  (pc = "done" /\ sawZero /\ restoreFailed = 0) =>
     (disk = pre /\ err = "CorruptionDetected")

\* C4: CriticalRecoveryFailure is reported only when a restoration write
\* failed.
C4_CriticalOnlyAfterFailedRestore ==
  (pc = "done" /\ err = "CriticalRecoveryFailure") => restoreFailed > 0

\* C9: a lineStart outside [1, N], or a supplied lineEnd (0 and negative
\* values included) below lineStart or above N, ends the call with
\* InvalidRange and the file unchanged.
C9_SuppliedLineEndValidated ==
  LET n == LineCount(pre)
      ls == args.lineStart
      le == args.lineEnd
  IN (/\ callNo = 1
      /\ pc \notin {"idle", "read"}
      /\ err # "ReadError"
      /\ \/ ls < 1
         \/ ls > n
         \/ le.supplied /\ (le.value < ls \/ le.value > n))
     => (pc = "done" /\ err = "InvalidRange" /\ disk = pre)

EveryLFAfterCR(s) ==
  \A i \in 1..Len(s) : s[i] = LF => (i > 1 /\ s[i - 1] = CR)

\* C11: for a file whose line separators are all CR LF, after a successful
\* edit of any valid range with any replacement text every line separator
\* of the file is CR LF: no LF stands without a CR right before it.
C11_CrLfPreserved ==
  (/\ callNo = 1
   /\ pc = "done"
   /\ err = "none"
   /\ HasLF(pre)
   /\ EveryLFAfterCR(pre))
  => EveryLFAfterCR(disk)

\* C11 witness: a CR LF file was edited with a replacement text of several
\* lines, and the edit succeeded
C11_Witness ==
  /\ callNo = 1
  /\ pc = "done"
  /\ err = "none"
  /\ HasLF(pre)
  /\ EveryLFAfterCR(pre)
  /\ HasLF(args.newContent)
  /\ disk # pre
  /\ EveryLFAfterCR(disk)

\* C20: in every execution of editFileSafely at most one restoration write
\* of the pre-edit content is attempted.
C20_AtMostOneRestoreWrite == restoreWrites <= 1

\* the lines of a content as split(/\r?\n/) gives them, each with the
\* terminator that followed it: CR LF, LF, or nothing after the last line
Pieces(content) ==
  LET p == SplitOn(content, LF)
  IN [k \in 1..Len(p) |->
        IF k = Len(p) THEN [line |-> p[k], term |-> <<>>]
        ELSE IF Len(p[k]) > 0 /\ p[k][Len(p[k])] = CR
          THEN [line |-> SubSeq(p[k], 1, Len(p[k]) - 1), term |-> <<CR, LF>>]
        ELSE [line |-> p[k], term |-> <<LF>>]]

\* C27: a successful editFileSafely(path, s, e, X) changes only the lines
\* s..e: every line outside that range, with its own line terminator, is
\* the same before and after, for every content, files that mix CRLF, LF
\* and bare CR included.
C27_OtherLinesUntouched ==
  (callNo = 1 /\ pc = "done" /\ err = "none") =>
    LET s == args.lineStart
        e == ActualLineEnd(args.lineStart, args.lineEnd)
        n == Len(SplitOn(args.newContent, LF))
        before == Pieces(pre)
        after == Pieces(disk)
    IN /\ \A k \in 1..(s - 1) : k <= Len(after) /\ after[k] = before[k]
       /\ \A k \in (e + 1)..Len(before) :
            LET m == k - (e - s + 1) + n
            IN m <= Len(after) /\ after[m] = before[k]

(***************************************************************************)
(* Properties of the path guard.                                           *)
(***************************************************************************)
InsideWorkspace(p) == IsPrefix(WorkspaceRoot, p)

\* C2: whenever validatePath succeeded, the location the caller's operation
\* on the returned path reaches lies inside the workspace root.
C2_ReachedLocationInside ==
  (ppc = "touched" /\ touched.ok) => InsideWorkspace(touched.path)

\* C7: a request whose lexically normalized form lies outside the workspace
\* root ends with AccessDenied before any filesystem call is made.
C7_LexicalEscapeDenied ==
  (ppc # "idle" /\ ~InsideWorkspace(absolute)) =>
     (ppc = "done" /\ perr = "AccessDenied" /\ fsCalls = 0)

\* C7 witness: a relative request with ".." segments that climbs above the
\* root has been denied
C7_Witness ==
  /\ ppc = "done"
  /\ perr = "AccessDenied"
  /\ fsCalls = 0
  /\ req.kind = "rel"
  /\ Len(req.segs) > 0
  /\ req.segs[1] = ".."
  /\ ~InsideWorkspace(absolute)

\* C8: for a target that does not exist, a parent directory whose real path
\* is outside the workspace ends with AccessDenied, and ParentMissing is
\* reported only when the parent cannot be resolved.
C8_ParentOutsideIsAccessDenied ==
  (/\ ppc \in {"done", "touched"}
   /\ fsCalls = 2
   /\ Realpath(fs, Parent(absolute)).ok)
  => IF InsideWorkspace(Realpath(fs, Parent(absolute)).path)
       THEN perr = "none"
       ELSE perr = "AccessDenied"

\* C30: a request for an existing file or directory that lies under the
\* workspace root, lexically and by its real path, whatever its name, is
\* accepted, and the path returned leads to that same file.
C30_InsidePathAccepted ==
  (/\ ppc \in {"done", "touched"}
   /\ InsideWorkspace(absolute)
   /\ Realpath(fs, absolute).ok
   /\ InsideWorkspace(Realpath(fs, absolute).path))
  => /\ perr = "none"
     /\ Realpath(fs, pret) = Realpath(fs, absolute)

(***************************************************************************)
(* Properties of the file index.                                           *)
(***************************************************************************)
\* C5: a reader that takes the catalog while a build is in progress sees
\* the complete previous catalog or the complete new one.
C5_ReaderSeesCompleteCatalog ==
  seen.during =>
     \/ Entries(seen.catalog) = Entries(seen.previous)
     \/ Entries(seen.catalog) = CompleteCatalog(tree)

\* C12: no key of the catalog has, below the root, a directory segment that
\* is named in the skip set or is hidden, at any depth.
C12_NoSkippedDirectoryInCatalog ==
  \A e \in Entries(fileIndex) :
    \A i \in 1..(Len(e.path) - 1) :
      e.path[i] \notin SKIP_DIRS /\ ~StartsWithDot(e.path[i])

\* C12 witness: a build has completed on a workspace that holds a file in a
\* nested node_modules directory and a file in a hidden directory, and the
\* catalog holds the file next to the node_modules directory
C12_Witness ==
  /\ indexLastBuilt > 0
  /\ \A b \in Builders : ~Building(b)
  /\ <<"src", "node_modules", "x.js">> \in tree
  /\ <<".github", "app.js">> \in tree
  /\ \E e \in Entries(fileIndex) : e.path = <<"src", "app.js">>

\* C29: when a refresh has overlapped the startup build on a workspace that
\* did not change, and no fs.stat failed, then once every build has
\* completed the catalog holds exactly one entry for every indexable file
\* and no other entry, as after a single uninterrupted build.
C29_OverlappedBuildsGiveSingleBuildCatalog ==
  (/\ overlapped
   /\ \A b \in Builders : ~Building(b)
   /\ changes = 0
   /\ ~statFailed)
  => /\ Entries(fileIndex) = CompleteCatalog(tree)
     /\ \A i, j \in 1..Len(fileIndex) :
          fileIndex[i].path = fileIndex[j].path => i = j

\* C29 witness: the refresh was requested while the startup build was under
\* way, both builds have completed without a failed stat on an unchanged
\* workspace, and the catalog holds at least two entries
C29_Witness ==
  /\ overlapped
  /\ \A b \in Builders : ~Building(b)
  /\ changes = 0
  /\ ~statFailed
  /\ indexLastBuilt >= 2
  /\ Len(fileIndex) >= 2

\* the place of a path in the results, 0 when it is not among them
Rank(results, f) ==
  IF \E i \in 1..Len(results) : results[i] = WorkspaceRoot \o f
    THEN CHOOSE i \in 1..Len(results) : results[i] = WorkspaceRoot \o f
    ELSE 0

\* C13: when the catalog holds two entries of the same name and priority
\* and the query is that name, the entry at the shorter relative path is
\* returned before the one at the longer path, whatever their order in the
\* catalog.
C13_ShorterPathFirst ==
  \A e1, e2 \in Entries(seen.catalog) :
    (/\ e1.name = e2.name
     /\ e1.priority = e2.priority
     /\ Len(PathString(e1.path)) < Len(PathString(e2.path))
     /\ ToLowerCase(seen.query) = ToLowerCase(NameChars(e1.name)))
    => (/\ Rank(seen.results, e1.path) > 0
        /\ Rank(seen.results, e1.path) < Rank(seen.results, e2.path))

(***************************************************************************)
(* Properties of the pattern editor.                                       *)
(***************************************************************************)
\* C6: when an edit of the batch matches neither exactly nor block-wise,
\* the call (dryRun or not) ends with NoMatchFound and the file on disk is
\* what it was before the call, also when earlier edits matched.
C6_UnmatchedEditAbortsBatch ==
  (aunmatched /\ apc # "edits") =>
     /\ apc = "done"
     /\ aerr = "NoMatchFound"
     /\ disk = apre
     /\ \A t \in TempIds : ~temps[t].exists

\* C6 witness: the first edit matched and changed the buffer, the second
\* did not match, the call was not a preview
C6_Witness ==
  /\ apc = "done"
  /\ aerr = "NoMatchFound"
  /\ ~adry
  /\ acount = 2
  /\ abuf # acontent
  /\ disk = apre

\* C15: a call with dryRun = true leaves the target, the temporary files
\* and writeFileAtomically untouched, and the diff a successful call returns
\* is made of the content before the call and the edited buffer alone, so
\* it is the same with and without dryRun.
C15_DryRunTouchesNothing ==
  /\ (adry /\ apc # "idle") =>
        /\ disk = apre
        /\ \A t \in TempIds : ~temps[t].exists
        /\ wpc = "none"
  /\ (apc = "done" /\ aerr = "none") =>
        adiff = [original |-> NormalizeLineEndings(apre),
                 modified |-> NormalizeLineEndings(
                                Join(SplitOn(abuf, LF), aending))]

\* C15 witness: a preview of a batch that changes the file has returned its
\* diff
C15_Witness ==
  /\ apc = "done"
  /\ adry
  /\ aerr = "none"
  /\ acount > 0
  /\ adiff.modified # adiff.original
  /\ disk = apre

\* C16: when the buffer is one line and an edit's one-line oldText equals
\* it after trimming but has a different leading indentation, the edit
\* yields the line's original indentation followed by the trimmed first
\* line of newText.
C16_BlockIndentationKept ==
  apc = "edits" =>
    \A edit \in EditOps :
      LET old == NormalizeLineEndings(edit.oldText)
          new == NormalizeLineEndings(edit.newText)
          r == ApplyEdit(abuf, edit)
      IN (/\ ~HasLF(abuf) /\ ~HasLF(old) /\ ~HasLF(new)
          /\ Len(Trim(old)) > 0
          /\ Trim(old) = Trim(abuf)
          /\ LeadingWs(old) # LeadingWs(abuf))
         => /\ r.matched
            /\ r.buf \in {LeadingWs(abuf) \o TrimStart(new),
                          LeadingWs(abuf) \o Trim(new)}

(***************************************************************************)
(* Properties of the tool handlers.                                        *)
(***************************************************************************)
\* C17: every tool invocation that fails, preview_edit and edit_file with a
\* line range outside the file included, answers with isError, and an
\* answer without isError is given only when the operation succeeded.
C17_FailureCarriesIsError ==
  tresp.tool # "none" => (tresp.failed <=> tresp.isError)

(***************************************************************************)
(* Properties of writeFileAtomically.                                      *)
(***************************************************************************)
\* C19: when writeFileAtomically fails at the temp-file write or at the
\* rename, the target holds what it held at the call, the error thrown is
\* the one of the failed write or rename, also when the unlink of the temp
\* file fails, and the temp file is gone whenever the unlink succeeded.
C19_FailedAtomicWriteLeavesTarget ==
  (wpc = "ret" /\ wres # "ok") =>
     /\ disk = wbefore
     /\ wres \in {"WriteError", "RenameError"}
     /\ wres = wcaught
     /\ wunlinked => ~temps[wtemp].exists

\* C19 witness: the rename failed, the unlink of the fully written temp
\* file failed as well, and the rename error is thrown
C19_Witness ==
  /\ wpc = "ret"
  /\ wres = "RenameError"
  /\ ~wunlinked
  /\ temps[wtemp] = File(wcontent)
  /\ wcontent # wbefore
  /\ disk = wbefore

(***************************************************************************)
(* Properties of concurrent write operations.                              *)
(***************************************************************************)
\* C14: every write of write_file (to an existing target and to a new one),
\* append_to_file, edit_file and the pattern editor goes through a temp file
\* and a rename, so that at every point the target holds what it held
\* before the operation or the complete new content, never a file written
\* in part.
C14_TargetOldOrComplete ==
  \A p \in Calls :
    calls[p].pc # "idle" =>
      cfs[Target(p)] \in {cinit[Target(p)]} \cup calls[p].intended

\* C18: two write operations running together on two different files leave
\* in each file what the operation on it leaves when it runs alone, and
\* neither names a temp file the other made.
C18_DifferentFilesIndependent ==
  /\ \A p \in Calls :
       \A x \in {Target(p)} \cup calls[p].made : cfs[x] = shadow[p][x]
  /\ \A p \in Calls : \A q \in Calls \ {p} :
       calls[p].used \cap calls[q].made = {}
C18_Witness ==
  /\ overlap
  /\ \A p \in Calls :
       /\ calls[p].pc = "done"
       /\ calls[p].res = "ok"
       /\ calls[p].made # {}
       /\ cfs[Target(p)] # cinit[Target(p)]
  /\ {calls[p].req.tool : p \in Calls} = {"edit_file", "append_to_file"}

\* both calls have returned, no file-system call of either failed, and the
\* two never drew the same temp-file name
BothReturnedNoFault ==
  /\ \A p \in Calls : calls[p].pc = "done" /\ ~calls[p].fault
  /\ \A p \in Calls : calls[p].req.tool = "edit_file"
  /\ calls[1].req.path = calls[2].req.path
  /\ calls[1].made \cap calls[2].made = {}

\* C28: when two editFileSafely calls on the same file interleave at their
\* awaits and no file-system call fails, the file ends as the new content
\* one of the two calls computed, and no call that returned success had
\* its content rolled back by the other call's verification
C28_SameFileOneCallWins ==
  BothReturnedNoFault =>
    /\ (\E p \in Calls : calls[p].intended # {}) =>
         cfs[SharedTarget] \in UNION {calls[p].intended : p \in Calls}
    /\ \A p, q \in Calls : calls[q].res = "ok" => q \notin calls[p].undid

(***************************************************************************)
(* Properties of the functions.                                            *)
(***************************************************************************)
\* C21: in a whitespace-tolerant block match every replacement line after
\* the first is the block's base indentation, then
\* max(0, indent(newText line j) - indent(oldText line j)) spaces, then the
\* trimmed line, whatever the indentations are: a newText or oldText line
\* without leading whitespace and a newText line without an oldText line
\* included.
C21_RelativeIndentOnBase ==
  (/\ outcome.done
   /\ ~Includes(sample.buf, NormalizeLineEndings(sample.oldText))
   /\ outcome.value.matched) =>
    LET contentLines == SplitOn(sample.buf, LF)
        oldLines == SplitOn(NormalizeLineEndings(sample.oldText), LF)
        newLines == SplitOn(NormalizeLineEndings(sample.newText), LF)
        i == Min(BlockMatches(contentLines, oldLines))
        base == LeadingWs(contentLines[i + 1])
        result == SplitOn(outcome.value.buf, LF)
    IN \A j \in 2..Len(newLines) :
         result[i + j] =
           base
             \o Spaces(Max0(Len(LeadingWs(newLines[j]))
                            - (IF j <= Len(oldLines)
                                 THEN Len(LeadingWs(oldLines[j])) ELSE 0)))
             \o Trim(newLines[j])

\* C22: when the buffer holds the normalized oldText verbatim, the buffer
\* after the edit is the text before the first occurrence, the normalized
\* newText as it is, also when it holds "$", and the text after that
\* occurrence, later occurrences included.
C22_FirstOccurrenceLiteral ==
  LET old == NormalizeLineEndings(sample.oldText)
      new == NormalizeLineEndings(sample.newText)
      i == IndexOf(sample.buf, old)
  IN (outcome.done /\ Includes(sample.buf, old)) =>
       /\ outcome.value.matched
       /\ outcome.value.buf =
            SubSeq(sample.buf, 1, i - 1) \o new
              \o SubSeq(sample.buf, i + Len(old), Len(sample.buf))

RECURSIVE SplitAt(_, _)
\* String.prototype.split with a separator of one or more characters
SplitAt(s, sep) ==
  LET i == IndexOf(s, sep)
  IN IF i = 0 THEN <<s>>
     ELSE <<SubSeq(s, 1, i - 1)>>
            \o SplitAt(SubSeq(s, i + Len(sep), Len(s)), sep)

\* C23: for every content, LF-only, CRLF-only, CR-only or mixed, the lines
\* editFileSafely validates and splices are the content split at the style
\* detectLineEnding returns, so that the unedited lines joined with that
\* style give the content back.
C23_SplitAgreesWithDetection ==
  outcome.done =>
    /\ outcome.value.lines = SplitAt(sample, outcome.value.lineEnding)
    /\ Join(outcome.value.lines, outcome.value.lineEnding) = sample

\* C24: for every text with any mix of CRLF, bare CR and LF,
\* normalizeLineEndings returns a text without a carriage return, and
\* applying it again changes nothing.
C24_NormalizedHasNoCR ==
  outcome.done =>
    /\ NoCR(outcome.value.once)
    /\ outcome.value.twice = outcome.value.once

\* C25: an entry whose relative path contains the query, case set aside,
\* without the query being its path or its file name, gets a score above
\* zero and below the score of an exact file name, whatever the length of
\* the path, so the entry is kept.
C25_ContainsTierPositive ==
  LET pathLower == ToLowerCase(SamplePath(sample))
      queryLower == ToLowerCase(sample.query)
  IN (/\ outcome.done
      /\ Includes(pathLower, queryLower)
      /\ pathLower # queryLower
      /\ ToLowerCase(sample.name) # queryLower) =>
       /\ outcome.value.score > 0
       /\ outcome.value.score < 900
       /\ outcome.value.kept

\* C26: runGitCommand spawns a git process only when the first argument is
\* one of status, diff, log, branch, show, rev-parse, config; for every
\* other first argument, add, commit, push, pull, merge, rebase, reset,
\* checkout, switch, restore, clean and rm among them, it fails before a
\* process is spawned.
C26_OnlyAllowListedSpawn ==
  LET readOnly == {"status", "diff", "log", "branch", "show", "rev-parse",
                   "config"}
  IN outcome.done =>
       IF Len(sample) > 0 /\ sample[1] \in readOnly
         THEN outcome.value.spawned = <<sample>>
         ELSE /\ outcome.value.spawned = <<>>
              /\ outcome.value.result \in {"NotAllowed", "NotInAllowedList"}
C26_Witness ==
  /\ outcome.done
  /\ sample = <<"status", "--porcelain">>
  /\ outcome.value.spawned = <<sample>>
  /\ outcome.value.result = "resolved"

=============================================================================
